---------------------------- MODULE Spec2Model ----------------------------
(***************************************************************************)
(* A model of the page-ordering pipeline of pdf-rearranger:                *)
(*   modules/headings.py, modules/page_numbers.py, modules/duplicates.py,  *)
(*   modules/embeddings.py, modules/ordering.py, modules/llm_ordering.py   *)
(*   and process_pdf_complete of processor.py.                             *)
(*                                                                         *)
(* Conventions.                                                            *)
(*  - A Python str is a sequence of one-character strings.                 *)
(*  - Python None is the empty sequence <<>> wherever the value is a str   *)
(*    or a tuple that the code never leaves empty (a title, a section      *)
(*    number, a numeric value), and <<n>> stands for the integer n where   *)
(*    the value may be None.                                               *)
(*  - A Python dict is a record; a key the code has not yet set is not in  *)
(*    its DOMAIN, and d.update(fields) is fields @@ d.                     *)
(*  - A Python list of page dicts is a sequence of page indices: the       *)
(*    dicts are shared by reference between `pages` and every reordered    *)
(*    list, so the records live once, in `pages`, indexed by               *)
(*    page_index + 1.                                                      *)
(*  - Real numbers are exact rationals: a similarity is an integer count   *)
(*    of thousandths, a section_numeric_value a base-1000 expansion.       *)
(***************************************************************************)
EXTENDS Integers, Sequences, FiniteSets, TLC

(***************************************************************************)
(* Characters and the str methods the code calls.                          *)
(***************************************************************************)
LowerSeq == <<"a","b","c","d","e","f","g","h","i","j","k","l","m",
              "n","o","p","q","r","s","t","u","v","w","x","y","z">>
UpperSeq == <<"A","B","C","D","E","F","G","H","I","J","K","L","M",
              "N","O","P","Q","R","S","T","U","V","W","X","Y","Z">>
DigitSeq == <<"0","1","2","3","4","5","6","7","8","9">>

Range(f) == {f[i] : i \in DOMAIN f}

LowerCh == Range(LowerSeq)
UpperCh == Range(UpperSeq)
DigitCh == Range(DigitSeq)
AlphaCh == LowerCh \cup UpperCh
SpaceCh == {" ", "\n", "\t"}
WordCh  == AlphaCh \cup DigitCh \cup {"_"}

IndexIn(seq, c) == CHOOSE i \in DOMAIN seq : seq[i] = c

\* str.lower() and str.upper() of one character
LowerOf(c) == IF c \in UpperCh THEN LowerSeq[IndexIn(UpperSeq, c)] ELSE c
UpperOf(c) == IF c \in LowerCh THEN UpperSeq[IndexIn(LowerSeq, c)] ELSE c

\* str.lower()
Lower(s) == [i \in DOMAIN s |-> LowerOf(s[i])]
\* str.upper()
Upper(s) == [i \in DOMAIN s |-> UpperOf(s[i])]

\* int() of one decimal digit
DigitVal(c) == IndexIn(DigitSeq, c) - 1

\* s[a-1 : b] : the slice of the 1-based positions a..b, clipped
Slice(s, a, b) ==
    LET lo == IF a < 1 THEN 1 ELSE a
        hi == IF b > Len(s) THEN Len(s) ELSE b
    IN  IF lo > hi THEN <<>> ELSE SubSeq(s, lo, hi)

\* s[:n]
Prefix(s, n) == Slice(s, 1, n)

\* str.strip()
Strip(s) ==
    IF \A i \in DOMAIN s : s[i] \in SpaceCh THEN <<>>
    ELSE LET lo == CHOOSE i \in DOMAIN s :
                      s[i] \notin SpaceCh /\ \A j \in 1..(i - 1) : s[j] \in SpaceCh
             hi == CHOOSE i \in DOMAIN s :
                      s[i] \notin SpaceCh /\ \A j \in (i + 1)..Len(s) : s[j] \in SpaceCh
         IN  SubSeq(s, lo, hi)

\* the positions of s that satisfy Keep, ascending
Positions(s, Keep(_)) == SelectSeq([i \in 1..Len(s) |-> i], Keep)

\* str.split(sep) for a one-character separator: always at least one piece
Split(s, sep) ==
    LET cuts == <<0>> \o Positions(s, LAMBDA i : s[i] = sep) \o <<Len(s) + 1>>
    IN  [k \in 1..(Len(cuts) - 1) |-> SubSeq(s, cuts[k] + 1, cuts[k + 1] - 1)]

\* str.split() with no argument: the maximal runs of non-whitespace
Words(s) ==
    LET first(i) == s[i] \notin SpaceCh /\ (i = 1 \/ s[i - 1] \in SpaceCh)
        last(j) == s[j] \notin SpaceCh /\ (j = Len(s) \/ s[j + 1] \in SpaceCh)
        starts == Positions(s, first)
        ends == Positions(s, last)
    IN  [k \in DOMAIN starts |-> SubSeq(s, starts[k], ends[k])]

\* sep.join(parts) for a one-character separator
RECURSIVE Join(_, _)
Join(parts, sep) ==
    IF parts = <<>> THEN <<>>
    ELSE IF Len(parts) = 1 THEN parts[1]
    ELSE parts[1] \o <<sep>> \o Join(Tail(parts), sep)

\* needle in s
Contains(s, needle) ==
    \E i \in 1..(Len(s) - Len(needle) + 1) :
        \A k \in 1..Len(needle) : s[i + k - 1] = needle[k]

\* str.isupper(): a cased character exists and none is lower case
IsUpper(s) ==
    /\ \E i \in DOMAIN s : s[i] \in AlphaCh
    /\ \A i \in DOMAIN s : s[i] \notin LowerCh

\* str.istitle(): upper case only after an uncased character, lower case
\* only after a cased one, and at least one cased character
IsTitle(s) ==
    /\ \E i \in DOMAIN s : s[i] \in AlphaCh
    /\ \A i \in DOMAIN s :
          LET prevCased == i > 1 /\ s[i - 1] \in AlphaCh
          IN  /\ (s[i] \in UpperCh => ~prevCased)
              /\ (s[i] \in LowerCh => prevCased)

\* str.isnumeric() and str.isdigit() on the characters of the model
IsDigits(s) == s /= <<>> /\ \A i \in DOMAIN s : s[i] \in DigitCh

\* str.isalpha()
IsAlpha(s) == s /= <<>> /\ \A i \in DOMAIN s : s[i] \in AlphaCh

\* int(s) of a string of decimal digits
RECURSIVE ParseInt(_)
ParseInt(s) ==
    IF s = <<>> THEN 0
    ELSE 10 * ParseInt(SubSeq(s, 1, Len(s) - 1)) + DigitVal(s[Len(s)])

\* [int(x) for x in s.split('.')]
ParseParts(s) ==
    LET pieces == Split(s, ".")
    IN  [i \in DOMAIN pieces |-> ParseInt(pieces[i])]

(***************************************************************************)
(* Regular expressions, as the re module matches them: a backtracking      *)
(* matcher that yields the matches at a position in the order re tries     *)
(* them (greedy repetition first, alternatives left to right).  A pattern  *)
(* is a tree of nodes; a match state is the position reached and the span  *)
(* <<first, last + 1>> of each capture group (<<>> while unset).           *)
(***************************************************************************)
Cls(S)         == [t |-> "cls", c |-> S]
Ch(c)          == Cls({c})
\* a literal character under re.IGNORECASE
ChI(c)         == Cls({LowerOf(c), UpperOf(c)})
Cat(rs)        == [t |-> "seq", rs |-> rs]
Alt(rs)        == [t |-> "alt", rs |-> rs]
\* r{lo,hi}, greedy; hi = -1 is no upper limit
Rep(r, lo, hi) == [t |-> "rep", r |-> r, lo |-> lo, hi |-> hi]
Star(r)        == Rep(r, 0, -1)
Plus(r)        == Rep(r, 1, -1)
Opt(r)         == Rep(r, 0, 1)
Grp(n, r)      == [t |-> "grp", n |-> n, r |-> r]
\* ^ and $ ; ml is re.MULTILINE
Bol(ml)        == [t |-> "bol", ml |-> ml]
Eol(ml)        == [t |-> "eol", ml |-> ml]
\* a literal word, and the same under re.IGNORECASE
Lit(w)         == Cat([i \in DOMAIN w |-> Ch(w[i])])
LitI(w)        == Cat([i \in DOMAIN w |-> ChI(w[i])])

ReDigit == Cls(DigitCh)
ReSpace == Cls(SpaceCh)
ReUpper == Cls(UpperCh)
ReAlpha == Cls(AlphaCh)
ReWord  == Cls(WordCh)

ReStart(i) == [pos |-> i, g |-> <<<<>>, <<>>>>]

RECURSIVE ReM(_, _, _), ReEach(_, _, _), ReSeq(_, _, _, _), ReAlt(_, _, _, _),
          ReRep(_, _, _, _), ReEachRep(_, _, _, _)

\* the match states after `re` from state st, in re's order of preference
ReM(re, s, st) ==
    CASE re.t = "cls" ->
            IF st.pos <= Len(s) /\ s[st.pos] \in re.c
            THEN <<[st EXCEPT !.pos = @ + 1]>> ELSE <<>>
      [] re.t = "seq" -> ReSeq(re.rs, 1, s, <<st>>)
      [] re.t = "alt" -> ReAlt(re.rs, 1, s, st)
      [] re.t = "rep" -> ReRep(re, s, st, 0)
      [] re.t = "grp" ->
            LET inner == ReM(re.r, s, st)
            IN  [i \in DOMAIN inner |->
                    [inner[i] EXCEPT !.g[re.n] = <<st.pos, inner[i].pos>>]]
      [] re.t = "bol" ->
            IF st.pos = 1 \/ (re.ml /\ s[st.pos - 1] = "\n")
            THEN <<st>> ELSE <<>>
      [] re.t = "eol" ->
            IF \/ st.pos = Len(s) + 1
               \/ (re.ml /\ s[st.pos] = "\n")
               \/ (st.pos = Len(s) /\ s[st.pos] = "\n")
            THEN <<st>> ELSE <<>>

ReEach(re, s, sts) ==
    IF sts = <<>> THEN <<>>
    ELSE ReM(re, s, Head(sts)) \o ReEach(re, s, Tail(sts))

ReSeq(rs, k, s, sts) ==
    IF k > Len(rs) THEN sts ELSE ReSeq(rs, k + 1, s, ReEach(rs[k], s, sts))

ReAlt(rs, k, s, st) ==
    IF k > Len(rs) THEN <<>> ELSE ReM(rs[k], s, st) \o ReAlt(rs, k + 1, s, st)

ReRep(re, s, st, k) ==
    LET once == SelectSeq(ReM(re.r, s, st), LAMBDA x : x.pos > st.pos)
        more == IF re.hi = -1 \/ k < re.hi
                THEN ReEachRep(re, s, once, k + 1) ELSE <<>>
    IN  more \o (IF k >= re.lo THEN <<st>> ELSE <<>>)

ReEachRep(re, s, sts, k) ==
    IF sts = <<>> THEN <<>>
    ELSE ReRep(re, s, Head(sts), k) \o ReEachRep(re, s, Tail(sts), k)

NoMatch == [found |-> FALSE, first |-> 0, last |-> 0, g |-> <<<<>>, <<>>>>]

\* the match re reports at start position i, if any
ReAt(re, s, i) ==
    LET ms == ReM(re, s, ReStart(i))
    IN  IF ms = <<>> THEN NoMatch
        ELSE [found |-> TRUE, first |-> i, last |-> ms[1].pos - 1, g |-> ms[1].g]

\* re.match(pattern, s)
ReMatch(re, s) == ReAt(re, s, 1)

\* re.search(pattern, s) starting at position i: the leftmost match
ReSearchFrom(re, s, i) ==
    LET starts == {j \in i..(Len(s) + 1) : ReAt(re, s, j).found}
    IN  IF starts = {} THEN NoMatch
        ELSE ReAt(re, s, CHOOSE j \in starts : \A k \in starts : j <= k)

ReSearch(re, s) == ReSearchFrom(re, s, 1)

\* re.findall(pattern, s): the non-overlapping matches, left to right
RECURSIVE ReFindAllFrom(_, _, _)
ReFindAllFrom(re, s, i) ==
    LET m == ReSearchFrom(re, s, i)
    IN  IF ~m.found THEN <<>>
        ELSE <<m>> \o ReFindAllFrom(re, s, IF m.last >= m.first
                                            THEN m.last + 1 ELSE m.first + 1)

ReFindAll(re, s) == ReFindAllFrom(re, s, 1)

\* m.group(n)
Group(s, m, n) == Slice(s, m.g[n][1], m.g[n][2] - 1)

(***************************************************************************)
(* modules/headings.py                                                     *)
(***************************************************************************)
SECTION_KEYWORDS == <<
    [name |-> "table of contents", priority |-> 10, position |-> 10,
     kw |-> <<"t","a","b","l","e"," ","o","f"," ","c","o","n","t","e","n","t","s">>],
    [name |-> "index", priority |-> 10, position |-> 20,
     kw |-> <<"i","n","d","e","x">>],
    [name |-> "abstract", priority |-> 9, position |-> 30,
     kw |-> <<"a","b","s","t","r","a","c","t">>],
    [name |-> "executive summary", priority |-> 10, position |-> 40,
     kw |-> <<"e","x","e","c","u","t","i","v","e"," ","s","u","m","m","a","r","y">>],
    [name |-> "summary", priority |-> 9, position |-> 50,
     kw |-> <<"s","u","m","m","a","r","y">>],
    [name |-> "introduction", priority |-> 8, position |-> 100,
     kw |-> <<"i","n","t","r","o","d","u","c","t","i","o","n">>],
    [name |-> "background", priority |-> 7, position |-> 110,
     kw |-> <<"b","a","c","k","g","r","o","u","n","d">>],
    [name |-> "overview", priority |-> 7, position |-> 120,
     kw |-> <<"o","v","e","r","v","i","e","w">>],
    [name |-> "scope", priority |-> 7, position |-> 130,
     kw |-> <<"s","c","o","p","e">>],
    [name |-> "definitions", priority |-> 10, position |-> 200,
     kw |-> <<"d","e","f","i","n","i","t","i","o","n","s">>],
    [name |-> "whereas", priority |-> 8, position |-> 210,
     kw |-> <<"w","h","e","r","e","a","s">>],
    [name |-> "witnesseth", priority |-> 8, position |-> 220,
     kw |-> <<"w","i","t","n","e","s","s","e","t","h">>],
    [name |-> "recitals", priority |-> 8, position |-> 230,
     kw |-> <<"r","e","c","i","t","a","l","s">>],
    [name |-> "parties", priority |-> 7, position |-> 240,
     kw |-> <<"p","a","r","t","i","e","s">>],
    [name |-> "agreement", priority |-> 7, position |-> 300,
     kw |-> <<"a","g","r","e","e","m","e","n","t">>],
    [name |-> "terms and conditions", priority |-> 8, position |-> 350,
     kw |-> <<"t","e","r","m","s"," ","a","n","d"," ","c","o","n","d","i","t","i","o","n","s">>],
    [name |-> "representations and warranties", priority |-> 7, position |-> 400,
     kw |-> <<"r","e","p","r","e","s","e","n","t","a","t","i","o","n","s"," ","a","n","d"," ","w","a","r","r","a","n","t","i","e","s">>],
    [name |-> "covenants", priority |-> 7, position |-> 410,
     kw |-> <<"c","o","v","e","n","a","n","t","s">>],
    [name |-> "indemnification", priority |-> 7, position |-> 420,
     kw |-> <<"i","n","d","e","m","n","i","f","i","c","a","t","i","o","n">>],
    [name |-> "termination", priority |-> 7, position |-> 430,
     kw |-> <<"t","e","r","m","i","n","a","t","i","o","n">>],
    [name |-> "dispute resolution", priority |-> 7, position |-> 440,
     kw |-> <<"d","i","s","p","u","t","e"," ","r","e","s","o","l","u","t","i","o","n">>],
    [name |-> "governing law", priority |-> 7, position |-> 450,
     kw |-> <<"g","o","v","e","r","n","i","n","g"," ","l","a","w">>],
    [name |-> "loan amount", priority |-> 8, position |-> 500,
     kw |-> <<"l","o","a","n"," ","a","m","o","u","n","t">>],
    [name |-> "principal amount", priority |-> 7, position |-> 510,
     kw |-> <<"p","r","i","n","c","i","p","a","l"," ","a","m","o","u","n","t">>],
    [name |-> "interest rate", priority |-> 7, position |-> 520,
     kw |-> <<"i","n","t","e","r","e","s","t"," ","r","a","t","e">>],
    [name |-> "payment terms", priority |-> 8, position |-> 530,
     kw |-> <<"p","a","y","m","e","n","t"," ","t","e","r","m","s">>],
    [name |-> "disbursement", priority |-> 7, position |-> 540,
     kw |-> <<"d","i","s","b","u","r","s","e","m","e","n","t">>],
    [name |-> "repayment schedule", priority |-> 9, position |-> 550,
     kw |-> <<"r","e","p","a","y","m","e","n","t"," ","s","c","h","e","d","u","l","e">>],
    [name |-> "collateral", priority |-> 7, position |-> 600,
     kw |-> <<"c","o","l","l","a","t","e","r","a","l">>],
    [name |-> "security", priority |-> 7, position |-> 610,
     kw |-> <<"s","e","c","u","r","i","t","y">>],
    [name |-> "annexure", priority |-> 9, position |-> 800,
     kw |-> <<"a","n","n","e","x","u","r","e">>],
    [name |-> "annex", priority |-> 9, position |-> 800,
     kw |-> <<"a","n","n","e","x">>],
    [name |-> "appendix", priority |-> 9, position |-> 850,
     kw |-> <<"a","p","p","e","n","d","i","x">>],
    [name |-> "exhibit", priority |-> 9, position |-> 850,
     kw |-> <<"e","x","h","i","b","i","t">>],
    [name |-> "schedule", priority |-> 8, position |-> 800,
     kw |-> <<"s","c","h","e","d","u","l","e">>],
    [name |-> "attachment", priority |-> 8, position |-> 850,
     kw |-> <<"a","t","t","a","c","h","m","e","n","t">>],
    [name |-> "miscellaneous", priority |-> 6, position |-> 700,
     kw |-> <<"m","i","s","c","e","l","l","a","n","e","o","u","s">>],
    [name |-> "signatures", priority |-> 9, position |-> 900,
     kw |-> <<"s","i","g","n","a","t","u","r","e","s">>],
    [name |-> "witness", priority |-> 8, position |-> 910,
     kw |-> <<"w","i","t","n","e","s","s">>],
    [name |-> "executed", priority |-> 7, position |-> 920,
     kw |-> <<"e","x","e","c","u","t","e","d">>],
    [name |-> "conclusion", priority |-> 7, position |-> 950,
     kw |-> <<"c","o","n","c","l","u","s","i","o","n">>],
    [name |-> "references", priority |-> 7, position |-> 960,
     kw |-> <<"r","e","f","e","r","e","n","c","e","s">>],
    [name |-> "bibliography", priority |-> 7, position |-> 970,
     kw |-> <<"b","i","b","l","i","o","g","r","a","p","h","y">>],
    [name |-> "glossary", priority |-> 8, position |-> 980,
     kw |-> <<"g","l","o","s","s","a","r","y">>],
    [name |-> "abbreviations", priority |-> 7, position |-> 990,
     kw |-> <<"a","b","b","r","e","v","i","a","t","i","o","n","s">>]
>>

\* the sentinel title "[BLANK PAGE]"
BlankTitle == <<"[","B","L","A","N","K"," ","P","A","G","E","]">>

\* fewer meaningful characters than this make a page blank
BlankThreshold == 20

\* len(re.sub(r'[\s\n\r\t]+', '', text.strip()))
MeaningfulChars(text) == Cardinality({i \in DOMAIN text : text[i] \notin SpaceCh})

\* a faulty blank test: only a text of whitespace is blank
is_blank_page_when_empty(text) == Strip(text) = <<>>

\* is_blank_page(text)
is_blank_page(text) ==
    IF text = <<>> THEN TRUE
    ELSE MeaningfulChars(Strip(text)) < BlankThreshold

\* r'(?:^|\n)(\d{1,2}(?:\.\d+)*)\s+([A-Z][A-Za-z]{2,50})' with re.MULTILINE
SectionPattern ==
    Cat(<< Alt(<<Bol(TRUE), Ch("\n")>>),
           Grp(1, Cat(<<Rep(ReDigit, 1, 2), Star(Cat(<<Ch("."), Plus(ReDigit)>>))>>)),
           Plus(ReSpace),
           Grp(2, Cat(<<ReUpper, Rep(ReAlpha, 2, 50)>>)) >>)

\* r'^\d+(?:\.\d+)*\s+[A-Z]'
NumberedLinePattern ==
    Cat(<< Bol(FALSE), Plus(ReDigit), Star(Cat(<<Ch("."), Plus(ReDigit)>>)),
           Plus(ReSpace), ReUpper >>)

\* r'^\d{1,2}[/-]\d{1,2}[/-]\d{2,4}$'
DatePattern ==
    Cat(<< Bol(FALSE), Rep(ReDigit, 1, 2), Cls({"/", "-"}), Rep(ReDigit, 1, 2),
           Cls({"/", "-"}), Rep(ReDigit, 2, 4), Eol(FALSE) >>)

\* r'^page\s+\d+' with re.IGNORECASE
PageLinePattern ==
    Cat(<< Bol(FALSE), LitI(<<"p","a","g","e">>), Plus(ReSpace), Plus(ReDigit) >>)

\* r'^(\d+\.?\d*|\(\w+\)|Article|Section)' with re.IGNORECASE
SectionMarkPattern ==
    Cat(<< Bol(FALSE),
           Grp(1, Alt(<< Cat(<<Plus(ReDigit), Opt(Ch(".")), Star(ReDigit)>>),
                         Cat(<<Ch("("), Plus(ReWord), Ch(")")>>),
                         LitI(<<"A","r","t","i","c","l","e">>),
                         LitI(<<"S","e","c","t","i","o","n">>) >>)) >>)

\* the pre-scan of extract_title: the (number, word) pairs that survive the
\* filter, in the order found
ValidSectionMatches(text) ==
    LET found == ReFindAll(SectionPattern, text)
        ok(m) == LET parts == ParseParts(Group(text, m, 1))
                     title_part == Group(text, m, 2)
                 IN  /\ 1 <= parts[1] /\ parts[1] <= 50
                     /\ ~(Len(parts) > 1 /\ parts[2] > 20)
                     /\ ~(Len(title_part) < 4 \/ IsUpper(title_part))
    IN  SelectSeq(found, ok)

\* prev_blank or next_blank for line i (1-based) of lines
IsIsolated(lines, i) ==
    \/ i = 1
    \/ Len(Strip(lines[i - 1])) < 10
    \/ i >= Len(lines)
    \/ Len(Strip(lines[i + 1])) < 10

\* the first pass of extract_title: the lines it would return, in order
IsolatedHeadings(lines) ==
    LET n == IF Len(lines) < 20 THEN Len(lines) ELSE 20
        hit(i) == LET clean == Strip(lines[i])
                  IN  /\ 5 <= Len(clean) /\ Len(clean) <= 100
                      /\ ReMatch(NumberedLinePattern, clean).found
                      /\ IsIsolated(lines, i)
    IN  SelectSeq([i \in 1..n |-> i], hit)

\* the score the second pass of extract_title gives line i (1-based)
LineScore(lines, i) ==
    LET clean == Strip(lines[i])
        is_isolated == IsIsolated(lines, i)
        is_caps == IsUpper(clean) /\ Len(Words(clean)) <= 8
        is_title_case == IsTitle(clean)
        has_section_num == ReMatch(SectionMarkPattern, clean).found
        is_short == Len(clean) < 50
    IN    (IF has_section_num THEN 5 ELSE 0)
        + (IF is_isolated THEN 4 ELSE 0)
        + (IF is_caps THEN 3 ELSE 0)
        + (IF is_short /\ is_isolated THEN 2 ELSE 0)
        + (IF is_title_case THEN 2 ELSE 0)
        + (IF i - 1 < 3 THEN 1 ELSE 0)

\* the candidate lines of the second pass of extract_title
CandidateLines(lines) ==
    LET n == IF Len(lines) < 15 THEN Len(lines) ELSE 15
        keep(i) == LET clean == Strip(lines[i])
                   IN  /\ 5 <= Len(clean) /\ Len(clean) <= 200
                       /\ ~IsDigits(clean)
                       /\ ~ReMatch(DatePattern, clean).found
                       /\ ~ReMatch(PageLinePattern, clean).found
    IN  SelectSeq([i \in 1..n |-> i], keep)

\* extract_title(text, deep_analysis): deep_analysis is never read
extract_title(text) ==
    IF is_blank_page(text) THEN BlankTitle
    ELSE
    LET lines == Split(text, "\n")
        valid == ValidSectionMatches(text)
        isolated == IsolatedHeadings(lines)
        cands == CandidateLines(lines)
        \* candidate_lines.sort(key=lambda x: (-x[1], x[2])) and its head
        best == CHOOSE i \in Range(cands) :
                   \A j \in Range(cands) :
                      \/ LineScore(lines, i) > LineScore(lines, j)
                      \/ (LineScore(lines, i) = LineScore(lines, j) /\ i <= j)
    IN  IF valid /= <<>>
        THEN Group(text, valid[1], 1) \o <<" ">> \o Group(text, valid[1], 2)
        ELSE IF isolated /= <<>> THEN Strip(lines[isolated[1]])
        ELSE IF cands = <<>> THEN <<>>
        ELSE Strip(lines[best])

\* classify_section(text, title): the loop over SECTION_KEYWORDS, keeping
\* (best_match, best_score, best_position); best_match <<>> is None
RECURSIVE ClassifyLoop(_, _, _, _)
ClassifyLoop(k, search_text, title, best) ==
    IF k > Len(SECTION_KEYWORDS) THEN best
    ELSE
    LET info == SECTION_KEYWORDS[k]
        title_boost == IF title /= <<>> /\ Contains(Lower(title), info.kw)
                       THEN 2 ELSE 1
        weighted_score == info.priority * title_boost
        next == IF Contains(search_text, info.kw) /\ weighted_score > best.score
                THEN [match |-> info.name, score |-> info.priority,
                      position |-> info.position]
                ELSE best
    IN  ClassifyLoop(k + 1, search_text, title, next)

classify_section(text, title) ==
    LET search_text == Lower(title) \o <<" ">> \o Lower(Prefix(text, 500))
        best == ClassifyLoop(1, search_text, title,
                             [match |-> "", score |-> 0, position |-> 500])
    IN  IF title = BlankTitle
        THEN [type |-> "blank", priority |-> 0, position |-> 9999]
        ELSE [type |-> IF best.match = "" THEN "unknown" ELSE best.match,
              priority |-> best.score, position |-> best.position]

\* a faulty comparison: numbers that agree on their common levels are equal
RECURSIVE ComparePartsCommon(_, _, _)
ComparePartsCommon(parts1, parts2, i) ==
    IF i > Len(parts1) \/ i > Len(parts2) THEN 0
    ELSE IF parts1[i] < parts2[i] THEN -1
    ELSE IF parts1[i] > parts2[i] THEN 1
    ELSE ComparePartsCommon(parts1, parts2, i + 1)

\* compare_section_numbers(num1, num2): -1, 0 or 1
RECURSIVE ComparePartsFrom(_, _, _)
ComparePartsFrom(parts1, parts2, i) ==
    IF i > Len(parts1) \/ i > Len(parts2)
    THEN (IF Len(parts1) < Len(parts2) THEN -1
          ELSE IF Len(parts1) > Len(parts2) THEN 1 ELSE 0)
    ELSE IF parts1[i] < parts2[i] THEN -1
    ELSE IF parts1[i] > parts2[i] THEN 1
    ELSE ComparePartsFrom(parts1, parts2, i + 1)

compare_section_numbers(num1, num2) ==
    IF num1 = <<>> /\ num2 = <<>> THEN 0
    ELSE IF num1 = <<>> THEN 1
    ELSE IF num2 = <<>> THEN -1
    ELSE ComparePartsFrom(ParseParts(num1), ParseParts(num2), 1)

RomanCh == {"I", "V", "X", "L", "C", "D", "M"}

RomanValue(c) ==
    CASE c = "I" -> 1 [] c = "V" -> 5 [] c = "X" -> 10 [] c = "L" -> 50
      [] c = "C" -> 100 [] c = "D" -> 500 [] c = "M" -> 1000

\* the loop of parse_roman_numeral over reversed(s), from position i down
RECURSIVE RomanFrom(_, _, _, _)
RomanFrom(s, i, prev_value, result) ==
    IF i < 1 THEN result
    ELSE LET value == RomanValue(s[i])
         IN  RomanFrom(s, i - 1, value,
                       IF value < prev_value THEN result - value
                       ELSE result + value)

\* parse_roman_numeral(s); 0 stands for None (the callers test truthiness)
parse_roman_numeral(str) ==
    LET s == Strip(Upper(str))
    IN  IF s = <<>> \/ \E i \in DOMAIN s : s[i] \notin RomanCh THEN 0
        ELSE LET result == RomanFrom(s, Len(s), 0, 0)
             IN  IF result > 0 THEN result ELSE 0

\* each level below the first weighs 1 / SectionBase of the level above
SectionBase == 1000

\* A section_numeric_value is a rational with denominator SectionBase^3,
\* written <<whole, d1, d2, d3>> with 0 <= di < SectionBase.
WholeValue(n) == <<n, 0, 0, 0>>

\* parts[0] + sum of parts[i] / (1000 ** i), i = 1..3
HierarchicalValue(parts) ==
    LET p(k) == IF k + 1 <= Len(parts) THEN parts[k + 1] ELSE 0
        s3 == p(3)
        s2 == p(2) + (s3 \div SectionBase)
        s1 == p(1) + (s2 \div SectionBase)
    IN  <<parts[1] + (s1 \div SectionBase),
          s1 % SectionBase, s2 % SectionBase, s3 % SectionBase>>

\* a + 1000 for a whole value a
PlusThousand(v) == <<v[1] + 1000, v[2], v[3], v[4]>>

\* a < b for two numeric values
ValueLess(a, b) ==
    \E k \in 1..4 : a[k] < b[k] /\ \A j \in 1..(k - 1) : a[j] = b[j]

\* \d+(?:\.\d+){0,3}
DottedNumber == Cat(<<Plus(ReDigit), Rep(Cat(<<Ch("."), Plus(ReDigit)>>), 0, 3)>>)

RomanOrDigitClass == Cls(RomanCh \cup {LowerOf(c) : c \in RomanCh} \cup DigitCh)

\* r'^(\d+(?:\.\d+){0,3})\s+[A-Z]'
SectionPattern1 == Cat(<<Bol(FALSE), Grp(1, DottedNumber), Plus(ReSpace), ReUpper>>)
\* r'^(\d+(?:\.\d+){0,3})[A-Z]'
SectionPattern2 == Cat(<<Bol(FALSE), Grp(1, DottedNumber), ReUpper>>)
\* r'^([IVXLCDM]+)[\s.)]' with re.IGNORECASE
SectionPattern3 ==
    Cat(<<Bol(FALSE),
          Grp(1, Plus(Cls(RomanCh \cup {LowerOf(c) : c \in RomanCh}))),
          Cls(SpaceCh \cup {".", ")"})>>)
\* r'^(?:article|section|chapter|part)\s+([IVXLCDM\d]+)' with re.IGNORECASE
SectionPattern4 ==
    Cat(<<Bol(FALSE),
          Alt(<<LitI(<<"a","r","t","i","c","l","e">>),
                LitI(<<"s","e","c","t","i","o","n">>),
                LitI(<<"c","h","a","p","t","e","r">>),
                LitI(<<"p","a","r","t">>)>>),
          Plus(ReSpace), Grp(1, Plus(RomanOrDigitClass))>>)
\* r'^\(([a-z0-9]+)\)' with re.IGNORECASE
SectionPattern5 ==
    Cat(<<Bol(FALSE), Ch("("), Grp(1, Plus(Cls(AlphaCh \cup DigitCh))), Ch(")")>>)
\* r'^(?:schedule|annexure|annex|appendix)\s+([IVXLCDM\d]+)' with re.IGNORECASE
SectionPattern6 ==
    Cat(<<Bol(FALSE),
          Alt(<<LitI(<<"s","c","h","e","d","u","l","e">>),
                LitI(<<"a","n","n","e","x","u","r","e">>),
                LitI(<<"a","n","n","e","x">>),
                LitI(<<"a","p","p","e","n","d","i","x">>)>>),
          Plus(ReSpace), Grp(1, Plus(RomanOrDigitClass))>>)

NoSection == [number |-> <<>>, value |-> <<>>]

\* extract_section_number(title): (section_number, numeric_value);
\* (None, None) is NoSection
extract_section_number(title) ==
    IF title = <<>> \/ title = BlankTitle THEN NoSection
    ELSE
    LET title_clean == Strip(title)
        m1 == ReMatch(SectionPattern1, title_clean)
        m2 == ReMatch(SectionPattern2, title_clean)
        m3 == ReMatch(SectionPattern3, title_clean)
        m4 == ReMatch(SectionPattern4, title_clean)
        m5 == ReMatch(SectionPattern5, title_clean)
        m6 == ReMatch(SectionPattern6, title_clean)
        g(m) == Group(title_clean, m, 1)
        dotted(m) == [number |-> g(m),
                      value |-> HierarchicalValue(ParseParts(g(m)))]
        roman(m) == parse_roman_numeral(g(m))
    IN  IF m1.found THEN dotted(m1)
        ELSE IF m2.found THEN dotted(m2)
        ELSE IF m3.found /\ roman(m3) /= 0
             THEN [number |-> Upper(g(m3)), value |-> WholeValue(roman(m3))]
        ELSE IF m4.found /\ roman(m4) /= 0
             THEN [number |-> Upper(g(m4)), value |-> WholeValue(roman(m4))]
        ELSE IF m4.found /\ IsDigits(g(m4))
             THEN [number |-> g(m4), value |-> WholeValue(ParseInt(g(m4)))]
        ELSE IF m5.found /\ IsDigits(g(m5))
             THEN [number |-> <<"(">> \o g(m5) \o <<")">>,
                   value |-> WholeValue(ParseInt(g(m5)))]
        ELSE IF m5.found /\ Len(g(m5)) = 1 /\ IsAlpha(g(m5))
             THEN [number |-> <<"(">> \o g(m5) \o <<")">>,
                   value |-> WholeValue(IndexIn(LowerSeq, LowerOf(g(m5)[1])))]
        ELSE IF m6.found /\ roman(m6) /= 0
             THEN [number |-> Upper(g(m6)),
                   value |-> PlusThousand(WholeValue(roman(m6)))]
        ELSE IF m6.found /\ IsDigits(g(m6))
             THEN [number |-> g(m6),
                   value |-> PlusThousand(WholeValue(ParseInt(g(m6))))]
        ELSE NoSection

(***************************************************************************)
(* Lists.                                                                  *)
(***************************************************************************)
\* sorted(seq, key=...) / list.sort(key=...): the stable sort of seq, where
\* Less(a, b) is key(a) < key(b)
StableSort(seq, Less(_, _)) ==
    LET n == Len(seq)
        rank(i) == 1 + Cardinality({j \in 1..n :
                          \/ Less(seq[j], seq[i])
                          \/ (~Less(seq[i], seq[j]) /\ j < i)})
    IN  [k \in 1..n |-> seq[CHOOSE i \in 1..n : rank(i) = k]]

\* [x for x in seq if Keep(x)] is SelectSeq(seq, Keep)

\* range(a, b) as a list
RangeList(a, b) == [k \in 1..(IF b > a THEN b - a ELSE 0) |-> a + k - 1]

RECURSIVE Flatten(_)
Flatten(lists) ==
    IF lists = <<>> THEN <<>> ELSE Head(lists) \o Flatten(Tail(lists))

RECURSIVE SumSeq(_)
SumSeq(seq) == IF seq = <<>> THEN 0 ELSE Head(seq) + SumSeq(Tail(seq))

Abs(x) == IF x < 0 THEN -x ELSE x

(***************************************************************************)
(* modules/page_numbers.py.  A confidence is an integer count of tenths.   *)
(***************************************************************************)
\* the patterns of detect_page_number, each under IGNORECASE | MULTILINE
PagePatterns == <<
    \* r"-\s*(\d+)\s*-"
    [conf |-> 10,
     re |-> Cat(<<Ch("-"), Star(ReSpace), Grp(1, Plus(ReDigit)), Star(ReSpace), Ch("-")>>)],
    \* r"page\s+(\d+)\s+of\s+\d+"
    [conf |-> 10,
     re |-> Cat(<<LitI(<<"p","a","g","e">>), Plus(ReSpace), Grp(1, Plus(ReDigit)),
                  Plus(ReSpace), LitI(<<"o","f">>), Plus(ReSpace), Plus(ReDigit)>>)],
    \* r"page\s+(\d+)"
    [conf |-> 9,
     re |-> Cat(<<LitI(<<"p","a","g","e">>), Plus(ReSpace), Grp(1, Plus(ReDigit))>>)],
    \* r"(\d+)\s*/\s*\d+"
    [conf |-> 9,
     re |-> Cat(<<Grp(1, Plus(ReDigit)), Star(ReSpace), Ch("/"), Star(ReSpace),
                  Plus(ReDigit)>>)],
    \* r"p\.\s*(\d+)"
    [conf |-> 8,
     re |-> Cat(<<ChI("p"), Ch("."), Star(ReSpace), Grp(1, Plus(ReDigit))>>)],
    \* r"^[\s\-]*(\d{1,3})[\s\-]*$"
    [conf |-> 5,
     re |-> Cat(<<Bol(TRUE), Star(Cls(SpaceCh \cup {"-"})), Grp(1, Rep(ReDigit, 1, 3)),
                  Star(Cls(SpaceCh \cup {"-"})), Eol(TRUE)>>)]
>>

\* (None, 0.0)
NoPageNumber == [num |-> <<>>, conf |-> 0]

\* the loop of detect_page_number over the patterns from the k-th on
RECURSIVE DetectFrom(_, _)
DetectFrom(scope, k) ==
    IF k > Len(PagePatterns) THEN NoPageNumber
    ELSE LET m == ReSearch(PagePatterns[k].re, scope)
             page_num == ParseInt(Group(scope, m, 1))
         IN  IF m.found /\ 1 <= page_num /\ page_num <= 9999
             THEN [num |-> <<page_num>>, conf |-> PagePatterns[k].conf]
             ELSE DetectFrom(scope, k + 1)

\* detect_page_number(text, header, footer): (page_number, confidence);
\* num is <<>> for None, <<n>> for n
detect_page_number(text, header, footer) ==
    LET lines == Split(Strip(text), "\n")
        header_lines == IF header /= <<>> THEN header
                        ELSE Join(Prefix(lines, 3), "\n")
        footer_lines == IF footer /= <<>> THEN footer
                        ELSE Join(Slice(lines, Len(lines) - 2, Len(lines)), "\n")
        scope == header_lines \o <<"\n">> \o footer_lines
    IN  DetectFrom(scope, 1)

\* a faulty test: only a gap of more than two counts
IsWideGap(current, next_num) == next_num - current > 2

\* if next_num - current > 1
IsGap(current, next_num) == next_num - current > 1

\* detect_missing_pages(pages_with_numbers), on a list of <<page_index, number>>
detect_missing_pages(pages_with_numbers) ==
    IF Len(pages_with_numbers) < 2 THEN <<>>
    ELSE
    LET sorted_pages == StableSort(pages_with_numbers, LAMBDA a, b : a[2] < b[2])
        page_numbers == [i \in DOMAIN sorted_pages |-> sorted_pages[i][2]]
        gap(i) == IF IsGap(page_numbers[i], page_numbers[i + 1])
                  THEN RangeList(page_numbers[i] + 1, page_numbers[i + 1])
                  ELSE <<>>
    IN  Flatten([i \in 1..(Len(page_numbers) - 1) |-> gap(i)])

(***************************************************************************)
(* modules/embeddings.py.  An embedding is an integer vector <<x, y>> whose *)
(* Euclidean norm is an integer, so that every cosine is an exact number   *)
(* of thousandths; the all-zero vector is what generate_embeddings returns *)
(* without the model.                                                      *)
(***************************************************************************)
ZeroVector == <<0, 0>>

Dot(a, b) == a[1] * b[1] + a[2] * b[2]

Norm(a) == CHOOSE n \in 0..(Abs(a[1]) + Abs(a[2])) : n * n = Dot(a, a)

\* sklearn's cosine_similarity, in thousandths: a vector of norm 0 is left
\* as it is by the normalisation, and its cosine with anything is 0
Cosine(a, b) ==
    IF Norm(a) = 0 \/ Norm(b) = 0 THEN 0
    ELSE (1000 * Dot(a, b)) \div (Norm(a) * Norm(b))

\* compute_similarity(embedding1, embedding2), in thousandths; available is
\* the module's EMBEDDINGS_AVAILABLE
compute_similarity(available, embedding1, embedding2) ==
    IF ~available THEN 0 ELSE Cosine(embedding1, embedding2)

(***************************************************************************)
(* modules/duplicates.py.  `pages` is the list of page records; an index   *)
(* is 0-based as in the code, so page idx is pages[idx + 1].               *)
(***************************************************************************)
\* a faulty hash: of the trimmed text, in the case it has
compute_page_hash_with_case(text) == Strip(text)

\* compute_page_hash(text): SHA-256 of the normalised text.  The digest is
\* taken to be injective, so the normalised text stands for it.
compute_page_hash(text) == Lower(Strip(text))

Indices(pages) == RangeList(0, Len(pages))

\* find_exact_duplicates(pages): the lists of hash_map with more than one
\* index, in the order their hashes were first seen
find_exact_duplicates(pages) ==
    LET hash(idx) == compute_page_hash(pages[idx + 1].text)
        first_seen == SelectSeq(Indices(pages),
                         LAMBDA i : \A j \in 0..(i - 1) : hash(j) /= hash(i))
        group(i) == SelectSeq(Indices(pages), LAMBDA j : hash(j) = hash(i))
        hash_map == [k \in DOMAIN first_seen |-> group(first_seen[k])]
    IN  SelectSeq(hash_map, LAMBDA indices : Len(indices) > 1)

\* a faulty test: the pairs at or below the threshold
IsBelowThreshold(similarity, threshold) == similarity <= threshold

\* if similarity >= threshold
IsNearDuplicate(similarity, threshold) == similarity >= threshold

\* find_near_duplicates(pages, embeddings, threshold): the list of
\* <<i, j, similarity>>, i < j, in the order of the two nested loops;
\* threshold and similarity in thousandths
find_near_duplicates(available, embeddings, threshold) ==
    LET n == Len(embeddings)
        row(i) == LET js == SelectSeq(RangeList(i + 1, n),
                        LAMBDA j : IsNearDuplicate(
                            compute_similarity(available, embeddings[i + 1],
                                               embeddings[j + 1]), threshold))
                  IN  [k \in DOMAIN js |->
                         <<i, js[k], compute_similarity(available, embeddings[i + 1],
                                                        embeddings[js[k] + 1])>>]
    IN  Flatten([i \in 1..n |-> row(i - 1)])

\* generate_duplicate_report(pages, exact_duplicates, near_duplicates): the
\* counts of the report
generate_duplicate_report(pages, exact_duplicates, near_duplicates) ==
    [total_pages |-> Len(pages),
     exact_duplicate_count |->
         SumSeq([k \in DOMAIN exact_duplicates |-> Len(exact_duplicates[k]) - 1]),
     near_duplicate_count |-> Len(near_duplicates)]

\* a faulty choice: the lower index of a near-duplicate pair is flagged
LowerIndex(pair) == pair[1]

\* pages[idx2]: the page the third loop of mark_duplicates flags for a pair
FlaggedIndex(pair) == pair[2]

\* a faulty assignment: the new keys replace the dict
WithoutPage(page, fields) == fields

\* page[key] = value for the keys of fields
Annotated(page, fields) == fields @@ page

\* mark_duplicates(pages, exact_duplicates, near_duplicates): the page
\* records after the three loops
mark_duplicates(pages, exact_duplicates, near_duplicates) ==
    LET \* <<dup_idx, original_idx>> in the order the second loop writes them
        exact_marks == Flatten([k \in DOMAIN exact_duplicates |->
            IF Len(exact_duplicates[k]) > 1
            THEN [d \in 1..(Len(exact_duplicates[k]) - 1) |->
                     <<exact_duplicates[k][d + 1], exact_duplicates[k][1]>>]
            ELSE <<>>])
        exact_of(idx) == SelectSeq(exact_marks, LAMBDA m : m[1] = idx)
        near_of(idx)  == SelectSeq(near_duplicates, LAMBDA m : FlaggedIndex(m) = idx)
        flags(idx) ==
            [is_exact_duplicate |-> exact_of(idx) /= <<>>,
             is_near_duplicate |-> near_of(idx) /= <<>>,
             duplicate_of |->
                 [k \in DOMAIN exact_of(idx) |-> exact_of(idx)[k][2]]
                 \o [k \in DOMAIN near_of(idx) |-> near_of(idx)[k][1]]]
        similarity(idx) ==
            IF near_of(idx) = <<>> THEN <<>>
            ELSE [duplicate_similarity |-> near_of(idx)[Len(near_of(idx))][3]]
        marked(idx) == Annotated(pages[idx + 1], similarity(idx) @@ flags(idx))
    IN  [i \in DOMAIN pages |-> marked(i - 1)]

(***************************************************************************)
(* modules/ordering.py.  `pages` is the list of page records in original   *)
(* order; a list of pages is a list of page indices into it.               *)
(***************************************************************************)
Title(pages, idx) == pages[idx + 1].title

Number(pages, idx) == pages[idx + 1].page_number_detected

\* a faulty update: every page keeps the position it had
KeepPositions(pages, ordered) ==
    [i \in DOMAIN pages |-> [new_position |-> pages[i].page_index] @@ pages[i]]

\* for new_idx, page in enumerate(ordered): page["new_position"] = new_idx
SetPositions(pages, ordered) ==
    [i \in DOMAIN pages |->
        LET at == {k \in DOMAIN ordered : ordered[k] = i - 1}
        IN  IF at = {} THEN pages[i]
            ELSE [new_position |->
                     (CHOOSE k \in at : \A j \in at : j <= k) - 1] @@ pages[i]]

\* (0, section_val) < (1, page_index), as Python compares the key tuples
SectionKeyLess(pages, a, b) ==
    LET va == pages[a + 1].section_numeric_value
        vb == pages[b + 1].section_numeric_value
    IN  CASE va /= <<>> /\ vb /= <<>> -> ValueLess(va, vb)
          [] va /= <<>> /\ vb = <<>>  -> TRUE
          [] va = <<>> /\ vb /= <<>>  -> FALSE
          [] OTHER -> pages[a + 1].page_index < pages[b + 1].page_index

HighConfidence == 5

\* order_pages_by_page_numbers(pages): the reordered list
order_pages_by_page_numbers(pages, list) ==
    LET numbered(idx) == /\ Number(pages, idx).num /= <<>>
                         /\ Number(pages, idx).conf > HighConfidence
        pages_with_numbers == SelectSeq(list, numbered)
        pages_without_numbers == SelectSeq(list, LAMBDA idx : ~numbered(idx))
        by_number(a, b) == Number(pages, a).num[1] < Number(pages, b).num[1]
        by_section(a, b) == SectionKeyLess(pages, a, b)
    IN  StableSort(pages_with_numbers, by_number)
        \o StableSort(pages_without_numbers, by_section)

\* the two thresholds of optimize_continuity, in thousandths
ContinuityThreshold == 300

SignificantImprovement == 200

\* a faulty swap: the page at i+2 is copied over the page at i+1
Overwritten(seq, i) == [seq EXCEPT ![i + 2] = seq[i + 3]]

\* pages[i+1], pages[i+2] = pages[i+2], pages[i+1], on a 1-based sequence
Exchanged(seq, i) == [seq EXCEPT ![i + 2] = seq[i + 3], ![i + 3] = seq[i + 2]]

\* the three tests of the loop body at index i; continuity_scores is the
\* list computed before the loop and is not recomputed after a swap
ShouldSwap(available, list, embeddings, continuity_scores, i) ==
    /\ continuity_scores[i + 1] < ContinuityThreshold
    /\ i + 2 < Len(list)
    /\ i + 3 < Len(list)
    /\ compute_similarity(available, embeddings[i + 1], embeddings[i + 3])
          > continuity_scores[i + 1] + SignificantImprovement

\* the loop of optimize_continuity from index i on
RECURSIVE ContinuityLoop(_, _, _, _, _)
ContinuityLoop(available, list, embeddings, continuity_scores, i) ==
    IF i >= Len(continuity_scores) THEN list
    ELSE IF ShouldSwap(available, list, embeddings, continuity_scores, i)
         THEN ContinuityLoop(available, Exchanged(list, i),
                             Exchanged(embeddings, i), continuity_scores, i + 1)
         ELSE ContinuityLoop(available, list, embeddings,
                             continuity_scores, i + 1)

\* continuity_scores of optimize_continuity
ContinuityScores(available, embeddings) ==
    [i \in 1..(Len(embeddings) - 1) |->
        compute_similarity(available, embeddings[i], embeddings[i + 1])]

\* optimize_continuity(pages, embeddings): the reordered list
optimize_continuity(available, list, embeddings) ==
    IF Len(embeddings) /= Len(list) THEN list
    ELSE ContinuityLoop(available, list, embeddings,
                        ContinuityScores(available, embeddings), 0)

\* score_components["continuity_score"] of compute_page_scores for the page
\* at index i of n, in two-thousandths: the similarities to the neighbours
\* there are, divided by neighbor_count
ContinuityScore(available, embeddings, i) ==
    LET n == Len(embeddings)
        prev_similarity == IF i > 0
                           THEN compute_similarity(available, embeddings[i],
                                                   embeddings[i + 1])
                           ELSE 0
        next_similarity == IF i < n - 1
                           THEN compute_similarity(available, embeddings[i + 1],
                                                   embeddings[i + 2])
                           ELSE 0
        neighbor_count == (IF i < 1 THEN i ELSE 1)
                          + (IF n - i - 1 < 1 THEN n - i - 1 ELSE 1)
    IN  IF neighbor_count > 0
        THEN (2 * (prev_similarity + next_similarity)) \div neighbor_count
        ELSE 2 * (prev_similarity + next_similarity)

\* compute_page_scores(pages, embeddings): the continuity_score it stores
\* for each page; the page number and section components do not enter it
compute_page_scores(available, embeddings) ==
    [k \in DOMAIN embeddings |->
        [continuity_score |-> ContinuityScore(available, embeddings, k - 1)]]

\* round(k / n, 2) in hundredths, to the nearest and to even on a tie
Round2(k, n) ==
    LET q == (100 * k) \div n
        r == (100 * k) % n
    IN  IF 2 * r > n \/ (2 * r = n /\ q % 2 = 1) THEN q + 1 ELSE q

\* the two thresholds of use_page_numbers, in hundredths
CoverageThreshold == 70

SequentialThreshold == 70

\* sequential_score, in hundredths: 50 when more than two numbered pages
\* have an average gap above 1.5, else 100
SequentialScore(pages, content_pages) ==
    LET numbered_pages ==
            StableSort(SelectSeq(content_pages,
                           LAMBDA idx : Number(pages, idx).num /= <<>>),
                       LAMBDA a, b : Number(pages, a).num[1] < Number(pages, b).num[1])
        gaps == [i \in 1..(Len(numbered_pages) - 1) |->
                    Abs(Number(pages, numbered_pages[i + 1]).num[1]
                        - Number(pages, numbered_pages[i]).num[1])]
    IN  IF Len(numbered_pages) > 2 /\ 2 * SumSeq(gaps) > 3 * Len(gaps)
        THEN 50 ELSE 100

\* a faulty key: the original index alone
ContentKeyLessByIndex(pages, a, b) ==
    pages[a + 1].page_index < pages[b + 1].page_index

\* (0, section_val, 0, page_idx) < (1, 0, position_hint, page_idx)
ContentKeyLess(pages, a, b) ==
    LET va == pages[a + 1].section_numeric_value
        vb == pages[b + 1].section_numeric_value
        ia == pages[a + 1].page_index
        ib == pages[b + 1].page_index
        ha == pages[a + 1].position_hint
        hb == pages[b + 1].position_hint
    IN  CASE va /= <<>> /\ vb /= <<>> ->
                 ValueLess(va, vb) \/ (va = vb /\ ia < ib)
          [] va /= <<>> /\ vb = <<>>  -> TRUE
          [] va = <<>> /\ vb /= <<>>  -> FALSE
          [] OTHER -> ha < hb \/ (ha = hb /\ ia < ib)

MinPagesForContinuity == 3

\* a faulty use_page_numbers: the coverage alone decides
UsePageNumbersByCoverage(pages_with_numbers, content_count, sequential_score) ==
    100 * pages_with_numbers >= CoverageThreshold * content_count

\* use_page_numbers = page_number_coverage >= 0.7 and sequential_score > 0.7
UsePageNumbers(pages_with_numbers, content_count, sequential_score) ==
    /\ 100 * pages_with_numbers >= CoverageThreshold * content_count
    /\ sequential_score > SequentialThreshold

\* a faulty final order: the blank pages first
FinalOrderBlanksFirst(ordered, blank_pages) == blank_pages \o ordered

\* final_ordered = ordered + blank_pages
FinalOrder(ordered, blank_pages) == ordered \o blank_pages

\* order_pages_hybrid(pages, embeddings): the returned list and metadata,
\* and the page records as the call leaves them
order_pages_hybrid(available, pages, embeddings) ==
    LET n == Len(pages)
        blank_pages == SelectSeq(Indices(pages),
                           LAMBDA idx : Title(pages, idx) = BlankTitle)
        content_pages == SelectSeq(Indices(pages),
                           LAMBDA idx : Title(pages, idx) /= BlankTitle)
        pages_with_numbers == Len(SelectSeq(content_pages,
                           LAMBDA idx : Number(pages, idx).num /= <<>>))
        sequential_score == SequentialScore(pages, content_pages)
        use_page_numbers ==
            UsePageNumbers(pages_with_numbers, Len(content_pages), sequential_score)
        ordering_metadata(method) ==
            [total_pages |-> n,
             content_pages |-> Len(content_pages),
             blank_pages |-> Len(blank_pages),
             pages_with_numbers |-> pages_with_numbers,
             page_number_coverage |-> Round2(pages_with_numbers, Len(content_pages)),
             sequential_score |-> sequential_score,
             ordering_method |-> method]
        content_pages_sorted ==
            StableSort(content_pages, LAMBDA a, b : ContentKeyLess(pages, a, b))
        ordered ==
            IF use_page_numbers
            THEN order_pages_by_page_numbers(pages, content_pages)
            ELSE IF Len(content_pages) > MinPagesForContinuity
                 THEN optimize_continuity(available, content_pages_sorted,
                          [k \in DOMAIN content_pages_sorted |->
                              embeddings[content_pages_sorted[k] + 1]])
                 ELSE content_pages_sorted
        final_ordered == FinalOrder(ordered, blank_pages)
    IN  IF content_pages = <<>>
        THEN [ordered |-> blank_pages,
              metadata |-> [total_pages |-> n, ordering_method |-> "blank_only"],
              pages |-> pages]
        ELSE [ordered |-> final_ordered,
              metadata |-> ordering_metadata(IF use_page_numbers
                                             THEN "page_numbers_primary"
                                             ELSE "section_numbers_primary"),
              pages |-> SetPositions(pages, final_ordered)]

MajorMove == 3

ShownMoves == 5

\* generate_ordering_explanation(pages, ordering_metadata): "ok" when it
\* returns its string, else the exception it raises
generate_ordering_explanation(pages, ordered, ordering_metadata) ==
    LET positioned == \A k \in DOMAIN ordered :
                          "new_position" \in DOMAIN pages[ordered[k] + 1]
        major_moves == SelectSeq(ordered, LAMBDA idx :
                          Abs(pages[idx + 1].new_position
                              - pages[idx + 1].page_index) > MajorMove)
    IN  IF ~positioned THEN "KeyError"
        ELSE IF \E k \in DOMAIN major_moves :
                    k <= ShownMoves /\ Title(pages, major_moves[k]) = <<>>
             THEN "TypeError"
             ELSE "ok"

(***************************************************************************)
(* modules/llm_ordering.py.  A response is what the remote model answers:  *)
(*   kind       "exception" when the request raises, "bad_json" when the   *)
(*              text is not JSON, "no_order" when the JSON has no          *)
(*              correct_order, "order" when it has one;                    *)
(*   order      the list correct_order;                                    *)
(*   printable  whether confidence, detected_sections and reasoning have   *)
(*              the types the success messages format.                     *)
(***************************************************************************)
\* a faulty validation: the length alone
ValidOrderByLength(order_indices, n) == Len(order_indices) = n

\* the two checks on correct_order: its length, then its set of indices
ValidOrder(order_indices, n) ==
    /\ Len(order_indices) = n
    /\ Range(order_indices) = 0..(n - 1)

\* order_pages_with_gemini(pages, api_key): the returned pair, and the page
\* records as the call leaves them.  ordered = <<>> with failed = TRUE is
\* the None of the code.
GeminiFailure(pages, error) ==
    [failed |-> TRUE, ordered |-> <<>>, metadata |-> [error |-> error],
     pages |-> pages]

order_pages_with_gemini(pages, gemini_available, configured, response) ==
    IF ~gemini_available THEN GeminiFailure(pages, "gemini_not_available")
    ELSE IF ~configured THEN GeminiFailure(pages, "configuration_failed")
    ELSE IF \E i \in DOMAIN pages : pages[i].title = <<>>
         THEN GeminiFailure(pages, "exception")
    ELSE IF response.kind = "exception" THEN GeminiFailure(pages, "exception")
    ELSE IF response.kind = "bad_json"
         THEN GeminiFailure(pages, "invalid_json_response")
    ELSE IF response.kind = "no_order" THEN GeminiFailure(pages, "exception")
    ELSE IF ~ValidOrder(response.order, Len(pages))
         THEN GeminiFailure(pages, "exception")
    ELSE IF ~response.printable
         THEN GeminiFailure(SetPositions(pages, response.order), "exception")
    ELSE [failed |-> FALSE,
          ordered |-> response.order,
          metadata |-> [ordering_method |-> "gemini_ai_structured",
                        total_pages |-> Len(pages),
                        page_number_coverage |-> 0,
                        content_pages |-> Len(pages),
                        blank_pages |-> 0],
          pages |-> SetPositions(pages, response.order)]

(***************************************************************************)
(* The documents.  A document is the list of page texts extract_pages_text *)
(* hands to the pipeline: the text of a page, stripped; with OCR a page of *)
(* fewer than 15 characters keeps whatever the OCR read, the empty string  *)
(* included.                                                               *)
(***************************************************************************)
\* a page without text: ""
BlankText ==
    <<>>

\* "1 Introduction\nThis paper is about pages\nPage 1"
IntroText ==
    <<"1"," ","I","n","t","r","o","d","u","c","t","i","o","n","\n","T","h",
      "i","s"," ","p","a","p","e","r"," ","i","s"," ","a","b","o","u","t",
      " ","p","a","g","e","s","\n","P","a","g","e"," ","1">>

\* "2 Methods\nWe describe the method"
MethodsText ==
    <<"2"," ","M","e","t","h","o","d","s","\n","W","e"," ","d","e","s","c",
      "r","i","b","e"," ","t","h","e"," ","m","e","t","h","o","d">>

\* "Conclusion and outlook\nWe end the paper here\nPage 5"
ConclusionText ==
    <<"C","o","n","c","l","u","s","i","o","n"," ","a","n","d"," ","o","u",
      "t","l","o","o","k","\n","W","e"," ","e","n","d"," ","t","h","e"," ",
      "p","a","p","e","r"," ","h","e","r","e","\n","P","a","g","e"," ","5">>

\* "2 METHODS\nWE DESCRIBE THE METHOD"
MethodsUpperText ==
    <<"2"," ","M","E","T","H","O","D","S","\n","W","E"," ","D","E","S","C",
      "R","I","B","E"," ","T","H","E"," ","M","E","T","H","O","D">>

\* "3 Results A\nThe results are shown here"
ResultsText ==
    <<"3"," ","R","e","s","u","l","t","s"," ","A","\n","T","h","e"," ","r",
      "e","s","u","l","t","s"," ","a","r","e"," ","s","h","o","w","n"," ",
      "h","e","r","e">>

\* "1 Introduction\nThis paper is about pages"
IntroLongText ==
    <<"1"," ","I","n","t","r","o","d","u","c","t","i","o","n","\n","T","h",
      "i","s"," ","p","a","p","e","r"," ","i","s"," ","a","b","o","u","t",
      " ","p","a","g","e","s">>

\* "2 Methods"
MethodsShortText ==
    <<"2"," ","M","e","t","h","o","d","s">>

\* "1 Introduction"
IntroShortText ==
    <<"1"," ","I","n","t","r","o","d","u","c","t","i","o","n">>

\* "3 Results A"
ResultsShortText ==
    <<"3"," ","R","e","s","u","l","t","s"," ","A">>

\* "abcd\nefgh\nijkl\nmnop\nqrst": no line of it is long enough for a title
NoTitleText ==
    <<"a","b","c","d","\n","e","f","g","h","\n","i","j","k","l","\n","m",
      "n","o","p","\n","q","r","s","t">>

\* "Discussion of results\nWe discuss the details\n2": the last line is a
\* standalone page number
StandaloneText ==
    <<"D","i","s","c","u","s","s","i","o","n"," ","o","f"," ","r","e","s",
      "u","l","t","s","\n","W","e"," ","d","i","s","c","u","s","s"," ","t",
      "h","e"," ","d","e","t","a","i","l","s","\n","2">>

\* the texts of the documents of Spec and SpecLocal
Corpus == {BlankText, IntroText, MethodsText, ConclusionText}

\* the texts of the documents of SpecDuplicates: MethodsUpperText differs
\* from MethodsText in case only
DuplicateCorpus == {IntroText, MethodsText, MethodsUpperText, ResultsText}

\* the five pages of the end-to-end scenario, each as the scenario gives it
\* and with a line of body text added
ScenarioShort ==
    <<MethodsShortText, IntroShortText, BlankText, ResultsShortText,
      ResultsShortText>>

ScenarioLong ==
    <<MethodsText, IntroLongText, BlankText, ResultsText, ResultsText>>

\* the texts of the documents of SpecVaried: a page without a title, a page
\* whose number stands alone, a page with a section number and a page with
\* a page number
VariedCorpus == {NoTitleText, StandaloneText, MethodsText, ConclusionText}

AllTexts == Corpus \cup DuplicateCorpus \cup Range(ScenarioShort)
            \cup Range(ScenarioLong) \cup VariedCorpus

\* the longest document of Spec
MaxPages == 3

\* the longest document of SpecLocal
MaxLocalPages == 5

\* the longest document of SpecDuplicates
MaxDuplicatePages == 4

\* the lists over S of length at most n
Lists(S, n) == UNION {[1..k -> S] : k \in 0..n}

(***************************************************************************)
(* modules/extractor.py and the encoder behind generate_embeddings.        *)
(***************************************************************************)
\* the header and footer regions extract_pages_text cuts from a text
HeaderOf(text) ==
    LET lines == Split(Strip(text), "\n")
    IN  IF Len(lines) >= 3 THEN Join(Prefix(lines, 3), "\n") ELSE text

FooterOf(text) ==
    LET lines == Split(Strip(text), "\n")
    IN  IF Len(lines) >= 3
        THEN Join(Slice(lines, Len(lines) - 2, Len(lines)), "\n") ELSE text

\* the page dict extract_pages_text appends for page page_num
ExtractedPage(page_num, text) ==
    [page_index |-> page_num, text |-> Strip(text),
     header |-> HeaderOf(text), footer |-> FooterOf(text)]

\* SentenceTransformer.encode: one vector per text, the same text always
\* the same vector
Encode(text) ==
    CASE text = IntroText \/ text = IntroLongText \/ text = IntroShortText
             -> <<1, 0>>
      [] text = MethodsText \/ text = MethodsShortText -> <<0, 1>>
      [] text = MethodsUpperText -> <<3, 4>>
      [] text = ConclusionText -> <<4, 3>>
      [] text = ResultsText \/ text = ResultsShortText -> <<4, 3>>
      [] text = NoTitleText -> <<3, 4>>
      [] text = StandaloneText -> <<4, 3>>
      [] OTHER -> <<3, 4>>

\* a faulty generate_embeddings: it encodes whether or not the model is there
generate_embeddings_unguarded(available, texts) ==
    [i \in DOMAIN texts |->
        Encode(IF Strip(texts[i]) /= <<>> THEN texts[i] ELSE <<" ">>)]

\* generate_embeddings(texts)
generate_embeddings(available, texts) ==
    IF ~available THEN [i \in DOMAIN texts |-> ZeroVector]
    ELSE [i \in DOMAIN texts |->
             Encode(IF Strip(texts[i]) /= <<>> THEN texts[i] ELSE <<" ">>)]

(***************************************************************************)
(* processor.py, process_pdf_complete.                                     *)
(***************************************************************************)
\* the keys Steps 2 and 3 set on the dict of a page
FeatureRecord(page_number_detected, title, section, class) ==
    [page_number_detected |-> page_number_detected,
     title |-> title,
     section_number |-> section.number,
     section_numeric_value |-> section.value,
     section_type |-> class.type,
     section_priority |-> class.priority,
     position_hint |-> class.position]

\* Steps 2 and 3 for a page once its title is extracted
TitledFeatures(text, header, footer, title) ==
    FeatureRecord(detect_page_number(text, header, footer), title,
                  extract_section_number(title), classify_section(text, title))

\* Steps 2 and 3 for one page: the keys the two passes and the
\* classification set on its dict
PageFeatures(text, header, footer) ==
    TitledFeatures(text, header, footer, extract_title(text))

\* PageFeatures of every text of the documents; the header and the footer
\* of a page are the regions of its text
FeatureTable ==
    [text \in AllTexts |-> PageFeatures(text, HeaderOf(text), FooterOf(text))]

\* the threshold of find_near_duplicates at Step 5, in thousandths
NearDuplicateThreshold == 950

\* the coverage from which Step 6 looks for missing pages, in hundredths
MissingCoverageThreshold == 30

VARIABLES
    pc,                    \* the step process_pdf_complete is at
    raised,                \* the exception it has raised, "" for none
    EMBEDDINGS_AVAILABLE,  \* modules.embeddings.EMBEDDINGS_AVAILABLE
    GEMINI_AVAILABLE,      \* modules.llm_ordering.GEMINI_AVAILABLE
    use_gemini,            \* the argument use_gemini
    gemini_api_key,        \* whether the argument gemini_api_key is given
    pages,                 \* the list of page dicts, in original order
    embeddings,
    exact_duplicates,
    near_duplicates,
    duplicate_report,
    missing_pages,
    gemini_result,         \* what order_pages_with_gemini returned, if called
    ordered_pages,
    ordering_metadata,
    reordered_count,
    section_numbers,       \* the section numbers CompareSections is given
    comparison,            \* and what it computed from them
    thresholds,            \* the two thresholds CompareThresholds is given
    detected_numbers,      \* the (page_index, number) pairs FindMissing is given
    content_embeddings_ordered,  \* the list optimize_continuity swaps in
    continuity_scores,     \* its continuity_scores
    loop_index             \* and the index i of its second loop

vars == <<pc, raised, EMBEDDINGS_AVAILABLE, GEMINI_AVAILABLE, use_gemini,
          gemini_api_key, pages, embeddings, exact_duplicates,
          near_duplicates, duplicate_report, missing_pages, gemini_result,
          ordered_pages, ordering_metadata, reordered_count,
          section_numbers, comparison, thresholds, detected_numbers,
          content_embeddings_ordered, continuity_scores, loop_index>>

\* the locals of optimize_continuity when it is called on its own
refinement == <<content_embeddings_ordered, continuity_scores, loop_index>>

NoRefinement ==
    /\ content_embeddings_ordered = <<>>
    /\ continuity_scores = <<>>
    /\ loop_index = 0

\* the arguments of the calls made outside process_pdf_complete
arguments == <<thresholds, detected_numbers, refinement>>

NoArguments == thresholds = <<>> /\ detected_numbers = <<>> /\ NoRefinement

environment == <<EMBEDDINGS_AVAILABLE, GEMINI_AVAILABLE, use_gemini,
                 gemini_api_key, arguments>>

sections == <<section_numbers, comparison>>

\* the locals of process_pdf_complete before their assignment
Unassigned ==
    /\ embeddings = <<>>
    /\ exact_duplicates = <<>>
    /\ near_duplicates = <<>>
    /\ duplicate_report = <<>>
    /\ missing_pages = <<>>
    /\ gemini_result = <<>>
    /\ ordered_pages = <<>>
    /\ ordering_metadata = <<>>
    /\ reordered_count = 0

\* the call process_pdf_complete(pdf_path, use_gemini, gemini_api_key) on a
\* document with the given page texts, Step 1 done; installed tells whether
\* google.generativeai can be imported
Started(texts, requested, key, installed) ==
    /\ pc = "start"
    /\ raised = ""
    /\ EMBEDDINGS_AVAILABLE \in BOOLEAN
    /\ GEMINI_AVAILABLE = installed
    /\ use_gemini = requested
    /\ gemini_api_key = key
    /\ pages = [i \in DOMAIN texts |-> ExtractedPage(i - 1, texts[i])]
    /\ Unassigned
    /\ section_numbers = <<>>
    /\ comparison = <<>>
    /\ NoArguments

\* any call
Init ==
    \E texts \in Lists(Corpus, MaxPages), requested \in BOOLEAN, key \in BOOLEAN,
       installed \in BOOLEAN :
        Started(texts, requested, key, installed)

\* ten-page documents with exactly seven numbered pages
BoundaryDocuments ==
    {[i \in 1..10 |-> IF i \in unnumbered THEN MethodsText ELSE IntroText] :
        unnumbered \in {S \in SUBSET (1..10) : Cardinality(S) = 3}}

\* the calls that leave use_gemini and gemini_api_key at their defaults,
\* without google.generativeai
InitLocal ==
    \E texts \in Lists(Corpus, MaxLocalPages) \cup BoundaryDocuments :
        Started(texts, FALSE, FALSE, FALSE)

\* the length of the long documents of SpecGated
GatedPages == 7

\* documents with two numbered pages, numbers 1 and 5, among pages without
\* a number, blank or not
GatedDocuments ==
    {[i \in 1..GatedPages |->
         IF i = first THEN IntroText
         ELSE IF i = second THEN ConclusionText ELSE filler] :
        first \in 1..GatedPages, second \in 1..GatedPages,
        filler \in {MethodsText, BlankText}}

\* any call, on a short document or on one of the long ones
InitGated ==
    \E texts \in Lists(Corpus, MaxPages) \cup GatedDocuments,
       requested \in BOOLEAN, key \in BOOLEAN, installed \in BOOLEAN :
        Started(texts, requested, key, installed)

InitDuplicates ==
    \E texts \in Lists(DuplicateCorpus, MaxDuplicatePages) :
        Started(texts, FALSE, FALSE, FALSE)

\* the longest document of SpecVaried
MaxVariedPages == 5

InitVaried ==
    \E texts \in Lists(VariedCorpus, MaxVariedPages) :
        Started(texts, FALSE, FALSE, FALSE)

InitScenario ==
    \E long \in [DOMAIN ScenarioShort -> BOOLEAN] :
        Started([i \in DOMAIN ScenarioShort |->
                    IF long[i] THEN ScenarioLong[i] ELSE ScenarioShort[i]],
                FALSE, FALSE, FALSE)

\* Steps 2 to 4: page numbers, titles, section numbers, classification and
\* embeddings
Analyse ==
    /\ pc = "start"
    /\ pages' = [i \in DOMAIN pages |-> FeatureTable[pages[i].text] @@ pages[i]]
    /\ embeddings' = generate_embeddings(EMBEDDINGS_AVAILABLE,
                         [i \in DOMAIN pages |-> pages[i].text])
    /\ pc' = "analysed"
    /\ UNCHANGED <<raised, environment, exact_duplicates, near_duplicates,
                   duplicate_report, missing_pages, gemini_result,
                   ordered_pages, ordering_metadata, reordered_count, sections>>

\* Step 5: duplicates
DetectDuplicates ==
    /\ pc = "analysed"
    /\ exact_duplicates' = find_exact_duplicates(pages)
    /\ near_duplicates' = find_near_duplicates(EMBEDDINGS_AVAILABLE, embeddings,
                                               NearDuplicateThreshold)
    /\ duplicate_report' = generate_duplicate_report(pages, exact_duplicates',
                                                     near_duplicates')
    /\ pages' = mark_duplicates(pages, exact_duplicates', near_duplicates')
    /\ pc' = "deduplicated"
    /\ UNCHANGED <<raised, environment, embeddings, missing_pages,
                   gemini_result, ordered_pages, ordering_metadata,
                   reordered_count, sections>>

\* a faulty gate: the coverage alone decides
MissingGateByCoverage(numbered, total, requested, key) ==
    total > 0 /\ 100 * numbered >= MissingCoverageThreshold * total

\* if page_num_coverage >= 0.3 or (use_gemini and gemini_api_key), with
\* page_num_coverage 0 for a document without pages
MissingGate(numbered, total, requested, key) ==
    \/ total > 0 /\ 100 * numbered >= MissingCoverageThreshold * total
    \/ requested /\ key

\* Step 6: missing pages
DetectMissing ==
    LET numbered == SelectSeq(Indices(pages),
                        LAMBDA idx : Number(pages, idx).num /= <<>>)
        pages_with_numbers_list ==
            [k \in DOMAIN numbered |->
                <<pages[numbered[k] + 1].page_index,
                  Number(pages, numbered[k]).num[1]>>]
    IN  /\ pc = "deduplicated"
        /\ missing_pages' =
               IF MissingGate(Len(pages_with_numbers_list), Len(pages),
                              use_gemini, gemini_api_key)
               THEN detect_missing_pages(pages_with_numbers_list)
               ELSE <<>>
        /\ pc' = "checked"
        /\ UNCHANGED <<raised, environment, pages, embeddings, exact_duplicates,
                       near_duplicates, duplicate_report, gemini_result,
                       ordered_pages, ordering_metadata, reordered_count,
                       sections>>

\* what the remote model may answer for a document of n pages
Identity(n) == RangeList(0, n)

Reversed(n) == [k \in 1..n |-> n - k]

Orders(n) ==
    {Identity(n), Reversed(n)}
    \cup (IF n >= 1
          THEN {SubSeq(Identity(n), 1, n - 1),          \* an index missing
                Identity(n) \o <<0>>,                    \* one index too many
                [Identity(n) EXCEPT ![n] = n]}           \* an index out of range
          ELSE {})
    \cup (IF n >= 2
          THEN {[Identity(n) EXCEPT ![n] = 0]}           \* an index repeated
          ELSE {})

NoResponse == [kind |-> "exception", order |-> <<>>, printable |-> TRUE]

Responses(n) ==
    {[kind |-> k, order |-> <<>>, printable |-> TRUE] :
        k \in {"exception", "bad_json", "no_order"}}
    \cup {[kind |-> "order", order |-> o, printable |-> TRUE] : o \in Orders(n)}
    \cup {[kind |-> "order", order |-> Reversed(n), printable |-> FALSE]}

\* configure_gemini fails and no request is made, or it succeeds and the
\* remote model answers
GeminiAttempts(n) ==
    {[configured |-> FALSE, response |-> NoResponse]}
    \cup {[configured |-> TRUE, response |-> r] : r \in Responses(n)}

\* the end of Step 7 on the hybrid path: order_pages_hybrid, then
\* generate_ordering_explanation, which may raise
HybridStep(current_pages) ==
    LET hybrid == order_pages_hybrid(EMBEDDINGS_AVAILABLE, current_pages, embeddings)
        explanation == generate_ordering_explanation(hybrid.pages, hybrid.ordered,
                                                     hybrid.metadata)
    IN  /\ ordered_pages' = hybrid.ordered
        /\ ordering_metadata' = hybrid.metadata
        /\ pages' = hybrid.pages
        /\ IF explanation = "ok"
           THEN pc' = "reordered" /\ raised' = raised
           ELSE pc' = "raised" /\ raised' = explanation

\* Step 7 when the adapter is requested, installed and given a key
ReorderWithGemini ==
    /\ pc = "checked"
    /\ use_gemini /\ GEMINI_AVAILABLE /\ gemini_api_key
    /\ \E attempt \in GeminiAttempts(Len(pages)) :
          LET result == order_pages_with_gemini(pages, GEMINI_AVAILABLE,
                             attempt.configured, attempt.response)
          IN  /\ gemini_result' = [failed |-> result.failed,
                                   metadata |-> result.metadata,
                                   attempt |-> attempt]
              /\ IF ~result.failed
                 THEN /\ ordered_pages' = result.ordered
                      /\ ordering_metadata' = result.metadata
                      /\ pages' = result.pages
                      /\ pc' = "reordered"
                      /\ raised' = raised
                 ELSE HybridStep(result.pages)
    /\ UNCHANGED <<environment, embeddings, exact_duplicates, near_duplicates,
                   duplicate_report, missing_pages, reordered_count, sections>>

\* Step 7 otherwise
ReorderHybrid ==
    /\ pc = "checked"
    /\ ~(use_gemini /\ GEMINI_AVAILABLE /\ gemini_api_key)
    /\ HybridStep(pages)
    /\ UNCHANGED <<environment, embeddings, exact_duplicates, near_duplicates,
                   duplicate_report, missing_pages, gemini_result,
                   reordered_count, sections>>

\* the count of reordered pages after Step 7
Finish ==
    /\ pc = "reordered"
    /\ IF \A k \in DOMAIN ordered_pages :
             "new_position" \in DOMAIN pages[ordered_pages[k] + 1]
       THEN /\ reordered_count' =
                   Len(SelectSeq(ordered_pages, LAMBDA idx :
                       pages[idx + 1].page_index /= pages[idx + 1].new_position))
            /\ pc' = "done"
            /\ raised' = raised
       ELSE /\ reordered_count' = reordered_count
            /\ pc' = "raised"
            /\ raised' = "KeyError"
    /\ UNCHANGED <<environment, pages, embeddings, exact_duplicates,
                   near_duplicates, duplicate_report, missing_pages,
                   gemini_result, ordered_pages, ordering_metadata, sections>>

Next ==
    \/ Analyse
    \/ DetectDuplicates
    \/ DetectMissing
    \/ ReorderWithGemini
    \/ ReorderHybrid
    \/ Finish

Spec == Init /\ [][Next]_vars

\* the pipeline without the adapter
NextLocal ==
    \/ Analyse
    \/ DetectDuplicates
    \/ DetectMissing
    \/ ReorderHybrid
    \/ Finish

SpecGated == InitGated /\ [][Next]_vars

SpecLocal == InitLocal /\ [][NextLocal]_vars

SpecVaried == InitVaried /\ [][NextLocal]_vars

SpecDuplicates == InitDuplicates /\ [][NextLocal]_vars

SpecScenario == InitScenario /\ [][NextLocal]_vars

(***************************************************************************)
(* The section numbers on their own: compare_section_numbers and the       *)
(* numeric value of extract_section_number, applied to three numbers.      *)
(***************************************************************************)
\* the numbers the two functions are given: the chain 3, 3.1, 3.2, 3.2.1, 4,
\* a leading zero, a zero level, a level of 1000, a level of two digits, a
\* main part of two digits and a number of four levels
SectionNumbers ==
    {<<"3">>,
     <<"3",".","1">>,
     <<"3",".","2">>,
     <<"3",".","2",".","1">>,
     <<"4">>,
     <<"0","3">>,
     <<"3",".","0">>,
     <<"3",".","1","0","0","0">>,
     <<"3",".","1","0">>,
     <<"1","0">>,
     <<"3",".","2",".","1",".","1">>}

\* a title that starts with the section number
TitleOf(number) == number \o <<" ", "T", "i", "t", "l", "e">>

InitSections ==
    /\ pc = "sections"
    /\ raised = ""
    /\ EMBEDDINGS_AVAILABLE = FALSE
    /\ GEMINI_AVAILABLE = FALSE
    /\ use_gemini = FALSE
    /\ gemini_api_key = FALSE
    /\ pages = <<>>
    /\ Unassigned
    /\ section_numbers \in SectionNumbers \X SectionNumbers \X SectionNumbers
    /\ comparison = <<>>
    /\ NoArguments

\* compare_section_numbers on every pair, extract_section_number on every
\* title
CompareSections ==
    /\ pc = "sections"
    /\ comparison' =
           [compare |-> [i \in 1..3 |-> [j \in 1..3 |->
                compare_section_numbers(section_numbers[i], section_numbers[j])]],
            section |-> [i \in 1..3 |->
                extract_section_number(TitleOf(section_numbers[i]))]]
    /\ pc' = "compared"
    /\ UNCHANGED <<raised, environment, pages, embeddings, exact_duplicates,
                   near_duplicates, duplicate_report, missing_pages,
                   gemini_result, ordered_pages, ordering_metadata,
                   reordered_count, section_numbers>>

NextSections == CompareSections

SpecSections == InitSections /\ [][NextSections]_vars

(***************************************************************************)
(* find_near_duplicates on its own, at two thresholds for the same          *)
(* embeddings.                                                              *)
(***************************************************************************)
\* the embeddings: two orthogonal vectors, two close ones and the zero vector
Vectors == {<<1, 0>>, <<0, 1>>, <<3, 4>>, <<4, 3>>, ZeroVector}

\* the thresholds, in thousandths: every similarity of two of Vectors, and
\* the threshold of Step 5
ThresholdValues ==
    {Cosine(a, b) : a \in Vectors, b \in Vectors} \cup {NearDuplicateThreshold}

\* the most embeddings of SpecThresholds
MaxVectors == 3

InitThresholds ==
    /\ pc = "thresholds"
    /\ raised = ""
    /\ EMBEDDINGS_AVAILABLE \in BOOLEAN
    /\ GEMINI_AVAILABLE = FALSE
    /\ use_gemini = FALSE
    /\ gemini_api_key = FALSE
    /\ pages = <<>>
    /\ embeddings \in Lists(Vectors, MaxVectors)
    /\ exact_duplicates = <<>>
    /\ near_duplicates = <<>>
    /\ duplicate_report = <<>>
    /\ missing_pages = <<>>
    /\ gemini_result = <<>>
    /\ ordered_pages = <<>>
    /\ ordering_metadata = <<>>
    /\ reordered_count = 0
    /\ section_numbers = <<>>
    /\ comparison = <<>>
    /\ thresholds \in {pair \in ThresholdValues \X ThresholdValues :
                          pair[1] <= pair[2]}
    /\ detected_numbers = <<>>
    /\ NoRefinement

\* find_near_duplicates at the lower and at the higher threshold
CompareThresholds ==
    /\ pc = "thresholds"
    /\ comparison' =
           [low |-> find_near_duplicates(EMBEDDINGS_AVAILABLE, embeddings,
                                         thresholds[1]),
            high |-> find_near_duplicates(EMBEDDINGS_AVAILABLE, embeddings,
                                          thresholds[2])]
    /\ pc' = "thresholded"
    /\ UNCHANGED <<raised, environment, pages, embeddings, exact_duplicates,
                   near_duplicates, duplicate_report, missing_pages,
                   gemini_result, ordered_pages, ordering_metadata,
                   reordered_count, section_numbers>>

NextThresholds == CompareThresholds

SpecThresholds == InitThresholds /\ [][NextThresholds]_vars

(***************************************************************************)
(* optimize_continuity on its own, one action for each step of it: the     *)
(* pages are the list of their indices 0..n-1 and `embeddings` holds the   *)
(* embedding of each, so content_embeddings_ordered starts as a copy.      *)
(***************************************************************************)
\* the embeddings of SpecContinuity
ContinuityVectors == {<<1, 0>>, <<0, 1>>, <<4, 3>>, <<3, 4>>}

\* the most pages of SpecContinuity
MaxContinuityPages == 6

InitContinuity ==
    /\ pc = "continuity"
    /\ raised = ""
    /\ EMBEDDINGS_AVAILABLE \in BOOLEAN
    /\ GEMINI_AVAILABLE = FALSE
    /\ use_gemini = FALSE
    /\ gemini_api_key = FALSE
    /\ pages = <<>>
    /\ embeddings \in Lists(ContinuityVectors, MaxContinuityPages)
    /\ exact_duplicates = <<>>
    /\ near_duplicates = <<>>
    /\ duplicate_report = <<>>
    /\ missing_pages = <<>>
    /\ gemini_result = <<>>
    /\ ordered_pages = [k \in DOMAIN embeddings |-> k - 1]
    /\ ordering_metadata = <<>>
    /\ reordered_count = 0
    /\ section_numbers = <<>>
    /\ comparison = <<>>
    /\ thresholds = <<>>
    /\ detected_numbers = <<>>
    /\ content_embeddings_ordered = embeddings
    /\ continuity_scores = <<>>
    /\ loop_index = 0

\* the first loop: continuity_scores
ScoreContinuity ==
    /\ pc = "continuity"
    /\ continuity_scores' =
           ContinuityScores(EMBEDDINGS_AVAILABLE, content_embeddings_ordered)
    /\ pc' = "refining"
    /\ UNCHANGED <<raised, EMBEDDINGS_AVAILABLE, GEMINI_AVAILABLE, use_gemini,
                   gemini_api_key, pages, embeddings, exact_duplicates,
                   near_duplicates, duplicate_report, missing_pages,
                   gemini_result, ordered_pages, ordering_metadata,
                   reordered_count, sections, thresholds, detected_numbers,
                   content_embeddings_ordered, loop_index>>

\* one turn of the second loop
RefineStep ==
    /\ pc = "refining"
    /\ loop_index < Len(continuity_scores)
    /\ IF ShouldSwap(EMBEDDINGS_AVAILABLE, ordered_pages,
                     content_embeddings_ordered, continuity_scores, loop_index)
       THEN /\ ordered_pages' = Exchanged(ordered_pages, loop_index)
            /\ content_embeddings_ordered' =
                   Exchanged(content_embeddings_ordered, loop_index)
       ELSE UNCHANGED <<ordered_pages, content_embeddings_ordered>>
    /\ loop_index' = loop_index + 1
    /\ UNCHANGED <<pc, raised, EMBEDDINGS_AVAILABLE, GEMINI_AVAILABLE,
                   use_gemini, gemini_api_key, pages, embeddings,
                   exact_duplicates, near_duplicates, duplicate_report,
                   missing_pages, gemini_result, ordering_metadata,
                   reordered_count, sections, thresholds, detected_numbers,
                   continuity_scores>>

\* the end of the second loop: return pages
ReturnRefined ==
    /\ pc = "refining"
    /\ loop_index >= Len(continuity_scores)
    /\ pc' = "refined"
    /\ UNCHANGED <<raised, environment, pages, embeddings, exact_duplicates,
                   near_duplicates, duplicate_report, missing_pages,
                   gemini_result, ordered_pages, ordering_metadata,
                   reordered_count, sections>>

NextContinuity ==
    \/ ScoreContinuity
    \/ RefineStep
    \/ ReturnRefined

SpecContinuity == InitContinuity /\ [][NextContinuity]_vars

(***************************************************************************)
(* Steps 2 and 3 for one page on its own: detect_page_number,              *)
(* extract_title, extract_section_number and classify_section.             *)
(***************************************************************************)
\* the lines of the page texts of SpecFeatures
FeatureLines ==
    {
        \* "Background"
        <<"B","a","c","k","g","r","o","u","n","d">>,
        \* "annexure of the contract follows here"
        <<"a","n","n","e","x","u","r","e"," ","o","f"," ","t","h","e"," ",
          "c","o","n","t","r","a","c","t"," ","f","o","l","l","o","w","s",
          " ","h","e","r","e">>,
        \* "[BLANK PAGE]"
        <<"[","B","L","A","N","K"," ","P","A","G","E","]">>,
        \* "Page 0"
        <<"P","a","g","e"," ","0">>,
        \* "Page 5"
        <<"P","a","g","e"," ","5">>,
        \* "Summary"
        <<"S","u","m","m","a","r","y">>
    }

\* the most lines of a page text of SpecFeatures
MaxLines == 3

\* the page texts of SpecFeatures
FeatureTexts == {Join(lines, "\n") : lines \in Lists(FeatureLines, MaxLines)}

InitFeatures ==
    \E text \in FeatureTexts :
        /\ pc = "page"
        /\ raised = ""
        /\ EMBEDDINGS_AVAILABLE = FALSE
        /\ GEMINI_AVAILABLE = FALSE
        /\ use_gemini = FALSE
        /\ gemini_api_key = FALSE
        /\ pages = <<ExtractedPage(0, text)>>
        /\ Unassigned
        /\ section_numbers = <<>>
        /\ comparison = <<>>
        /\ NoArguments

\* Steps 2 and 3 for the page
ExtractFeatures ==
    /\ pc = "page"
    /\ comparison' = PageFeatures(pages[1].text, pages[1].header, pages[1].footer)
    /\ pc' = "featured"
    /\ UNCHANGED <<raised, environment, pages, embeddings, exact_duplicates,
                   near_duplicates, duplicate_report, missing_pages,
                   gemini_result, ordered_pages, ordering_metadata,
                   reordered_count, section_numbers>>

NextFeatures == ExtractFeatures

SpecFeatures == InitFeatures /\ [][NextFeatures]_vars

(***************************************************************************)
(* compute_page_scores on its own: `embeddings` holds the embeddings of    *)
(* the pages in their current order.                                       *)
(***************************************************************************)
\* the most pages of SpecScores
MaxScoredPages == 4

InitScores ==
    /\ pc = "scores"
    /\ raised = ""
    /\ EMBEDDINGS_AVAILABLE \in BOOLEAN
    /\ GEMINI_AVAILABLE = FALSE
    /\ use_gemini = FALSE
    /\ gemini_api_key = FALSE
    /\ pages = <<>>
    /\ embeddings \in Lists(ContinuityVectors, MaxScoredPages)
    /\ exact_duplicates = <<>>
    /\ near_duplicates = <<>>
    /\ duplicate_report = <<>>
    /\ missing_pages = <<>>
    /\ gemini_result = <<>>
    /\ ordered_pages = <<>>
    /\ ordering_metadata = <<>>
    /\ reordered_count = 0
    /\ section_numbers = <<>>
    /\ comparison = <<>>
    /\ NoArguments

\* compute_page_scores(pages, embeddings)
ScorePages ==
    /\ pc = "scores"
    /\ comparison' = compute_page_scores(EMBEDDINGS_AVAILABLE, embeddings)
    /\ pc' = "scored"
    /\ UNCHANGED <<raised, environment, pages, embeddings, exact_duplicates,
                   near_duplicates, duplicate_report, missing_pages,
                   gemini_result, ordered_pages, ordering_metadata,
                   reordered_count, section_numbers>>

NextScores == ScorePages

SpecScores == InitScores /\ [][NextScores]_vars

(***************************************************************************)
(* detect_missing_pages on its own: the argument is any list of            *)
(* <<page_index, number>> pairs, as Step 6 collects them.                  *)
(***************************************************************************)
\* the largest detected page number of SpecMissing
MaxNumber == 7

\* the most numbered pages of SpecMissing
MaxNumbered == 5

\* pages_with_numbers_list of a document whose k-th numbered page carries
\* numbers[k]
NumberedPages(numbers) == [k \in DOMAIN numbers |-> <<k - 1, numbers[k]>>]

InitMissing ==
    /\ pc = "numbers"
    /\ raised = ""
    /\ EMBEDDINGS_AVAILABLE = FALSE
    /\ GEMINI_AVAILABLE = FALSE
    /\ use_gemini = FALSE
    /\ gemini_api_key = FALSE
    /\ pages = <<>>
    /\ embeddings = <<>>
    /\ exact_duplicates = <<>>
    /\ near_duplicates = <<>>
    /\ duplicate_report = <<>>
    /\ missing_pages = <<>>
    /\ gemini_result = <<>>
    /\ ordered_pages = <<>>
    /\ ordering_metadata = <<>>
    /\ reordered_count = 0
    /\ section_numbers = <<>>
    /\ comparison = <<>>
    /\ thresholds = <<>>
    /\ detected_numbers \in
           {NumberedPages(numbers) : numbers \in Lists(1..MaxNumber, MaxNumbered)}
    /\ NoRefinement

\* missing = detect_missing_pages(pages_with_numbers_list)
FindMissing ==
    /\ pc = "numbers"
    /\ missing_pages' = detect_missing_pages(detected_numbers)
    /\ pc' = "missed"
    /\ UNCHANGED <<raised, environment, pages, embeddings, exact_duplicates,
                   near_duplicates, duplicate_report, gemini_result,
                   ordered_pages, ordering_metadata, reordered_count,
                   section_numbers, comparison>>

NextMissing == FindMissing

SpecMissing == InitMissing /\ [][NextMissing]_vars

(***************************************************************************)
(* Properties.                                                             *)
(***************************************************************************)
\* Step 7 has run order_pages_hybrid: directly, or after the adapter failed
HybridReturned ==
    /\ pc \in {"reordered", "raised", "done"}
    /\ (gemini_result = <<>> \/ gemini_result.failed)

\* the texts of the document
Texts == [i \in DOMAIN pages |-> pages[i].text]

BlankPages == {i \in DOMAIN pages : pages[i].title = BlankTitle}

ContentPages == {i \in DOMAIN pages : pages[i].title /= BlankTitle}

NumberedContentPages ==
    {i \in ContentPages : pages[i].page_number_detected.num /= <<>>}

\* the place of page index idx in a list of page indices
PlaceIn(list, idx) == CHOOSE k \in DOMAIN list : list[k] = idx

\* C1: after order_pages_hybrid returns, every page record of a document of
\* N >= 0 pages, blank or not, has a new_position, and the positions are
\* 0..N-1, each used once.
C1_PositionsPermutation ==
    HybridReturned =>
        /\ \A i \in DOMAIN pages : "new_position" \in DOMAIN pages[i]
        /\ \A k \in 0..(Len(pages) - 1) :
              Cardinality({i \in DOMAIN pages : pages[i].new_position = k}) = 1

\* C2: in the order order_pages_hybrid returns for a document with a page
\* that is not blank, every blank page comes after every content page, in
\* the returned list and by new_position, and the blank pages hold the
\* largest positions; on the number-order path, on the structure-order path
\* and after the continuity refinement.
C2_BlanksLast ==
    HybridReturned /\ ContentPages /= {} =>
        /\ \A blank \in BlankPages, content \in ContentPages :
              /\ pages[blank].new_position > pages[content].new_position
              /\ PlaceIn(ordered_pages, blank - 1) > PlaceIn(ordered_pages, content - 1)
        /\ {pages[blank].new_position : blank \in BlankPages}
              = (Len(pages) - Cardinality(BlankPages))..(Len(pages) - 1)

\* a blank page and four content pages on the structure-order path, the
\* second and third content pages exchanged by the refinement
C2_Witness ==
    /\ pc = "done"
    /\ Texts = <<IntroText, MethodsText, ConclusionText, ConclusionText, BlankText>>
    /\ ordering_metadata.ordering_method = "section_numbers_primary"
    /\ ordered_pages = <<0, 2, 1, 3, 4>>
    /\ pages[5].new_position = 4

\* the scenario as given, and with the content pages made long enough not
\* to count as blank; embeddings unavailable
GivenScenario == Texts = ScenarioShort /\ ~EMBEDDINGS_AVAILABLE

PaddedScenario == Texts = ScenarioLong /\ ~EMBEDDINGS_AVAILABLE

\* one exact-duplicate group {3,4}, only page 4 flagged
ScenarioDuplicates ==
    /\ exact_duplicates = <<(<<3, 4>>)>>
    /\ \A i \in DOMAIN pages : pages[i].is_exact_duplicate <=> i = 5

\* C3: for the pages "2 Methods", "1 Introduction", "", "3 Results A",
\* "3 Results A", without page numbers and without embeddings, the texts have
\* fewer than 20 characters that are not whitespace, so all five pages are
\* blank: the order is the input order 0..4 and the method blank_only.  With
\* the same headings on pages of 20 such characters or more the order is
\* [1, 0, 3, 4, 2].  Either way the one exact-duplicate group is {3,4} and
\* only page 4 is flagged.
C3_Scenario ==
    HybridReturned =>
        /\ GivenScenario =>
              /\ \A i \in DOMAIN pages : pages[i].title = BlankTitle
              /\ ordered_pages = <<0, 1, 2, 3, 4>>
              /\ ordering_metadata.ordering_method = "blank_only"
              /\ ScenarioDuplicates
        /\ PaddedScenario =>
              /\ ordered_pages = <<1, 0, 3, 4, 2>>
              /\ \A k \in DOMAIN ordered_pages :
                    pages[ordered_pages[k] + 1].new_position = k - 1
              /\ ScenarioDuplicates

\* C3 as stated: the pages as given come out in the order [1, 0, 3, 4, 2]
C3_Original ==
    HybridReturned /\ GivenScenario =>
        /\ ordered_pages = <<1, 0, 3, 4, 2>>
        /\ ScenarioDuplicates

\* the padded scenario, run to the end
C3_Witness ==
    /\ pc = "done"
    /\ PaddedScenario
    /\ BlankPages = {3}
    /\ ordered_pages = <<1, 0, 3, 4, 2>>
    /\ exact_duplicates = <<(<<3, 4>>)>>

AdapterCalled == gemini_result /= <<>>

\* what the remote model answered
Answer == gemini_result.attempt.response

\* the answer carries an order that is a permutation of 0..N-1
AnswerIsPermutation ==
    /\ Answer.kind = "order"
    /\ Len(Answer.order) = Len(pages)
    /\ \A idx \in 0..(Len(pages) - 1) :
          Cardinality({k \in DOMAIN Answer.order : Answer.order[k] = idx}) = 1

\* the failures of the answer itself: a body that is not JSON, a body
\* without correct_order, an order that is no permutation of 0..N-1
AnswerRejected ==
    /\ AdapterCalled
    /\ gemini_result.attempt.configured
    /\ \/ Answer.kind \in {"bad_json", "no_order"}
       \/ Answer.kind = "order" /\ ~AnswerIsPermutation

\* C5: order_pages_with_gemini accepts an answer only when its correct_order
\* has exactly N entries that are a permutation of 0..N-1; an answer that is
\* not JSON, has no correct_order, is of the wrong length or is no
\* permutation makes it return the failure indicator, metadata with the one
\* field error, and the pipeline goes on to the local engine.
C5_AdapterValidation ==
    AdapterCalled =>
        /\ ~gemini_result.failed =>
              /\ gemini_result.attempt.configured
              /\ AnswerIsPermutation
              /\ ordered_pages = Answer.order
              /\ ordering_metadata.ordering_method = "gemini_ai_structured"
        /\ AnswerRejected =>
              /\ gemini_result.failed
              /\ DOMAIN gemini_result.metadata = {"error"}
              /\ ordering_metadata.ordering_method /= "gemini_ai_structured"

\* an order of the right length with an index repeated is rejected
C5_Witness ==
    /\ AnswerRejected
    /\ Answer.kind = "order"
    /\ Len(Answer.order) = Len(pages)
    /\ \E k \in DOMAIN Answer.order : \E m \in DOMAIN Answer.order :
          k /= m /\ Answer.order[k] = Answer.order[m]
    /\ gemini_result.failed
    /\ gemini_result.metadata = [error |-> "exception"]

\* a page record as it was before Step 7
BeforeOrdering(page) == [f \in DOMAIN page \ {"new_position"} |-> page[f]]

\* C6: when the adapter is requested and the answer is rejected, the
\* pipeline raises nothing, and the order and the page records are those of
\* order_pages_hybrid on the pages as they were before the adapter was
\* called.
C6_FallbackAsLocal ==
    AnswerRejected /\ pc \in {"reordered", "raised", "done"} =>
        LET local == order_pages_hybrid(EMBEDDINGS_AVAILABLE,
                         [i \in DOMAIN pages |-> BeforeOrdering(pages[i])],
                         embeddings)
        IN  /\ raised = ""
            /\ ordered_pages = local.ordered
            /\ pages = local.pages

\* C7: after the adapter failed and the local engine ordered the document,
\* the ordering metadata of the result has a field error.
C7_ErrorRecorded ==
    AdapterCalled /\ gemini_result.failed /\ pc \in {"reordered", "done"} =>
        "error" \in DOMAIN ordering_metadata

\* the result of compare_section_numbers on the i-th and j-th number
Compared(i, j) == comparison.compare[i][j]

\* the levels of the i-th number
Levels(i) == ParseParts(section_numbers[i])

IsProperPrefix(a, b) == Len(a) < Len(b) /\ SubSeq(b, 1, Len(a)) = a

Chain ==
    <<<<"3">>,
      <<"3",".","1">>,
      <<"3",".","2">>,
      <<"3",".","2",".","1">>,
      <<"4">>>>

\* C8: compare_section_numbers returns -1, 0 or 1; it is antisymmetric and
\* transitive, returns 0 exactly for numbers with the same levels, puts a
\* proper prefix before its extensions, and orders 3 < 3.1 < 3.2 < 3.2.1 < 4.
C8_StrictTotalOrder ==
    pc = "compared" =>
        \A i \in 1..3, j \in 1..3 :
            /\ Compared(i, j) \in {-1, 0, 1}
            /\ Compared(i, j) = 0 - Compared(j, i)
            /\ Compared(i, j) = 0 <=> Levels(i) = Levels(j)
            /\ IsProperPrefix(Levels(i), Levels(j)) => Compared(i, j) = -1
            /\ \A k \in 1..3 :
                  Compared(i, j) = -1 /\ Compared(j, k) = -1 => Compared(i, k) = -1
            /\ \A a \in DOMAIN Chain, c \in DOMAIN Chain :
                  a < c /\ section_numbers[i] = Chain[a] /\ section_numbers[j] = Chain[c]
                      => Compared(i, j) = -1 /\ Compared(j, i) = 1

\* 3.2 before 3.2.1 before 4
C8_Witness ==
    /\ pc = "compared"
    /\ section_numbers = <<Chain[3], Chain[4], Chain[5]>>
    /\ Compared(1, 2) = -1
    /\ Compared(2, 3) = -1
    /\ Compared(1, 3) = -1
    /\ Compared(3, 1) = 1

\* the numeric value extract_section_number gives the i-th number
Value(i) == comparison.section[i].value

\* C9: for section numbers of levels that are not negative, the order of the
\* numeric values is the order of compare_section_numbers: one value is
\* below another exactly when the comparison is -1, and the values are equal
\* exactly when it is 0.
C9_ValueOrder ==
    pc = "compared" =>
        \A i \in 1..3, j \in 1..3 :
            Len(Levels(i)) <= 4 /\ Len(Levels(j)) <= 4 =>
                /\ ValueLess(Value(i), Value(j)) <=> Compared(i, j) = -1
                /\ Value(i) = Value(j) <=> Compared(i, j) = 0

\* the text find_exact_duplicates hashes for page i
Normalised(i) == Lower(Strip(pages[i].text))

IsAscending(list) == \A k \in 1..(Len(list) - 1) : list[k] < list[k + 1]

Members(list) == {list[k] : k \in DOMAIN list}

\* C10: find_exact_duplicates reports exactly the classes of more than one
\* page under equality of the trimmed, lower-cased text, each in ascending
\* index order; mark_duplicates flags every member of a group but its first,
\* no first member and no page outside a group, and puts the first member in
\* duplicate_of of each flagged page.  For pages A, B, A, C the one group is
\* {0,2} and only index 2 is flagged.
C10_ExactDuplicates ==
    pc \notin {"start", "analysed"} =>
        /\ \A g \in DOMAIN exact_duplicates :
              LET group == exact_duplicates[g]
              IN  /\ Len(group) > 1
                  /\ IsAscending(group)
                  /\ Members(group) = {i - 1 : i \in {i \in DOMAIN pages :
                                         Normalised(i) = Normalised(group[1] + 1)}}
                  /\ \A h \in DOMAIN exact_duplicates : h /= g =>
                        Members(exact_duplicates[h]) \cap Members(group) = {}
        /\ \A i \in DOMAIN pages, j \in DOMAIN pages :
              i /= j /\ Normalised(i) = Normalised(j) =>
                  \E g \in DOMAIN exact_duplicates :
                      {i - 1, j - 1} \subseteq Members(exact_duplicates[g])
        /\ \A i \in DOMAIN pages :
              /\ pages[i].is_exact_duplicate <=>
                    \E g \in DOMAIN exact_duplicates :
                        i - 1 \in Members(Tail(exact_duplicates[g]))
              /\ \A g \in DOMAIN exact_duplicates :
                    i - 1 \in Members(Tail(exact_duplicates[g])) =>
                        exact_duplicates[g][1] \in Members(pages[i].duplicate_of)
        /\ (/\ Len(pages) = 4
            /\ Normalised(1) = Normalised(3)
            /\ Cardinality({Normalised(1), Normalised(2), Normalised(4)}) = 3)
              => /\ exact_duplicates = <<(<<0, 2>>)>>
                 /\ \A i \in DOMAIN pages : pages[i].is_exact_duplicate <=> i = 3

\* pages A, B, A in capitals, C
C10_Witness ==
    /\ pc = "done"
    /\ Texts = <<MethodsText, IntroText, MethodsUpperText, ResultsText>>
    /\ exact_duplicates = <<(<<0, 2>>)>>
    /\ pages[3].is_exact_duplicate
    /\ 0 \in Members(pages[3].duplicate_of)
    /\ ~pages[1].is_exact_duplicate

\* Step 5 has marked the pages
Marked == pc \notin {"start", "analysed", "sections"}

\* the similarity of pages i and j (0-based), in thousandths
SimilarityOf(i, j) ==
    compute_similarity(EMBEDDINGS_AVAILABLE, embeddings[i + 1], embeddings[j + 1])

\* the pairs i < j at or above the threshold of Step 5
SimilarPairs ==
    {pair \in (0..(Len(pages) - 1)) \X (0..(Len(pages) - 1)) :
        pair[1] < pair[2] /\ SimilarityOf(pair[1], pair[2]) >= NearDuplicateThreshold}

PairLess(a, b) == a[1] < b[1] \/ (a[1] = b[1] /\ a[2] < b[2])

\* C11: find_near_duplicates reports exactly the pairs i < j whose
\* similarity is at least the threshold, each once, in ascending (i, j)
\* order; mark_duplicates flags the higher index of every pair and puts the
\* lower index in its duplicate_of, so every index in a duplicate_of is
\* below the page's own index and page 0 is never flagged.
C11_NearDuplicates ==
    Marked =>
        /\ {<<near_duplicates[k][1], near_duplicates[k][2]>> :
                k \in DOMAIN near_duplicates} = SimilarPairs
        /\ Len(near_duplicates) = Cardinality(SimilarPairs)
        /\ \A k \in DOMAIN near_duplicates :
              /\ near_duplicates[k][3]
                    = SimilarityOf(near_duplicates[k][1], near_duplicates[k][2])
              /\ k > 1 => PairLess(near_duplicates[k - 1], near_duplicates[k])
        /\ \A i \in DOMAIN pages :
              /\ pages[i].is_near_duplicate
                    <=> \E pair \in SimilarPairs : pair[2] = i - 1
              /\ \A pair \in SimilarPairs : pair[2] = i - 1 =>
                    pair[1] \in {pages[i].duplicate_of[k] :
                                    k \in DOMAIN pages[i].duplicate_of}
              /\ \A k \in DOMAIN pages[i].duplicate_of :
                    pages[i].duplicate_of[k] < i - 1
        /\ pages /= <<>> =>
              ~pages[1].is_near_duplicate /\ ~pages[1].is_exact_duplicate

\* two different texts with similar embeddings, a third text between them
C11_Witness ==
    /\ pc = "done"
    /\ EMBEDDINGS_AVAILABLE
    /\ Texts = <<MethodsUpperText, IntroText, ResultsText>>
    /\ near_duplicates = <<(<<0, 2, 960>>)>>
    /\ pages[3].is_near_duplicate
    /\ ~pages[3].is_exact_duplicate
    /\ pages[3].duplicate_of = <<0>>

\* C12: for the same embeddings and thresholds t1 <= t2, every pair
\* find_near_duplicates reports at t2 it reports at t1, so raising the
\* threshold never raises the count of pairs.
C12_ThresholdMonotonic ==
    pc = "thresholded" =>
        /\ {comparison.high[k] : k \in DOMAIN comparison.high}
              \subseteq {comparison.low[k] : k \in DOMAIN comparison.low}
        /\ Len(comparison.high) <= Len(comparison.low)

\* the higher threshold keeps some pairs and drops others
C12_Witness ==
    /\ pc = "thresholded"
    /\ thresholds[1] < thresholds[2]
    /\ comparison.high /= <<>>
    /\ Len(comparison.high) < Len(comparison.low)

\* C13: after mark_duplicates the duplicate_of of every page holds no page
\* index more than once, also for a page that is an exact and a near
\* duplicate of the same earlier page.
C13_DuplicateOfIsSet ==
    Marked =>
        \A i \in DOMAIN pages :
            \A k \in DOMAIN pages[i].duplicate_of, m \in DOMAIN pages[i].duplicate_of :
                pages[i].duplicate_of[k] = pages[i].duplicate_of[m] => k = m

\* the keys mark_duplicates writes
DuplicateKeys ==
    {"is_exact_duplicate", "is_near_duplicate", "duplicate_of",
     "duplicate_similarity"}

\* C14: Step 5 only annotates: find_exact_duplicates, find_near_duplicates
\* and mark_duplicates leave the number and the order of the pages and
\* every key a page had (page_index, text, title, detected page number
\* among them) as they were, and the only keys they add are
\* is_exact_duplicate, is_near_duplicate, duplicate_of and
\* duplicate_similarity.
C14_OnlyAnnotates ==
    [][pc = "analysed" =>
          /\ Len(pages') = Len(pages)
          /\ embeddings' = embeddings
          /\ \A i \in DOMAIN pages :
                /\ DOMAIN pages[i] \subseteq DOMAIN pages'[i]
                /\ \A key \in DOMAIN pages[i] : pages'[i][key] = pages[i][key]
                /\ DOMAIN pages'[i] \ DOMAIN pages[i] \subseteq DuplicateKeys
                /\ pages'[i].page_index = i - 1]_vars

\* Step 5 has flagged an exact and a near duplicate, and written all four
\* keys on a page
C14_Witness ==
    /\ pc = "deduplicated"
    /\ \E i \in DOMAIN pages :
          /\ pages[i].is_exact_duplicate
          /\ pages[i].is_near_duplicate
          /\ DuplicateKeys \subseteq DOMAIN pages[i]
    /\ \E i \in DOMAIN pages :
          ~pages[i].is_exact_duplicate /\ pages[i].is_near_duplicate

\* the numbers of detected_numbers, in the order given
DetectedList == [k \in DOMAIN detected_numbers |-> detected_numbers[k][2]]

Detected == Members(DetectedList)

\* the integers strictly between the smallest and the largest detected
\* number that are not detected themselves
Absent ==
    {n \in 1..MaxNumber :
        /\ n \notin Detected
        /\ \E low \in Detected : low < n
        /\ \E high \in Detected : n < high}

\* C15: detect_missing_pages returns, ascending and without repetition,
\* exactly the integers strictly between the smallest and the largest
\* detected number that are not detected, and the empty list for fewer than
\* two pairs; 1,2,3,5,6 gives 4, and 1,2,4,7 gives 3,5,6.
C15_MissingPages ==
    pc = "missed" =>
        /\ IsAscending(missing_pages)
        /\ Len(detected_numbers) < 2 => missing_pages = <<>>
        /\ Len(detected_numbers) >= 2 => Members(missing_pages) = Absent
        /\ DetectedList = <<1, 2, 3, 5, 6>> => missing_pages = <<4>>
        /\ DetectedList = <<1, 2, 4, 7>> => missing_pages = <<3, 5, 6>>

\* detect_missing_pages has answered 3, 5, 6 for the numbers 1, 2, 4, 7
C15_Witness ==
    /\ pc = "missed"
    /\ DetectedList = <<1, 2, 4, 7>>
    /\ missing_pages = <<3, 5, 6>>

\* a content page whose title is None or whose section type is "unknown"
FaultyPage(page) ==
    /\ page.title /= BlankTitle
    /\ page.title = <<>> \/ page.section_type = "unknown"

\* C16: in a document where some content page has no title or the section
\* type "unknown", no stage after the extraction raises, wherever the page
\* ends up.
C16_FaultsNeverAbort ==
    (pc /= "start" /\ \E i \in DOMAIN pages : FaultyPage(pages[i]))
        => raised = ""

\* the content pages of ordered_pages follow one another by content_sort_key
InInitialSort ==
    \A k \in DOMAIN ordered_pages, m \in DOMAIN ordered_pages :
        (/\ k < m
         /\ ordered_pages[k] + 1 \in ContentPages
         /\ ordered_pages[m] + 1 \in ContentPages)
            => ContentKeyLess(pages, ordered_pages[k], ordered_pages[m])

\* C17: without the embedding model generate_embeddings gives one zero
\* vector per page, compute_similarity is 0 for every pair of them,
\* find_near_duplicates at 0.95 reports no pair, the structure order is the
\* initial sort by content_sort_key with no swap, and nothing is raised up
\* to the call of order_pages_hybrid.
C17_WithoutEmbeddings ==
    (~EMBEDDINGS_AVAILABLE /\ pc /= "start") =>
        /\ embeddings = [i \in DOMAIN pages |-> ZeroVector]
        /\ \A i \in DOMAIN embeddings, j \in DOMAIN embeddings :
              compute_similarity(EMBEDDINGS_AVAILABLE, embeddings[i],
                                 embeddings[j]) = 0
        /\ pc \in {"analysed", "deduplicated", "checked"} => raised = ""
        /\ Marked => near_duplicates = <<>>
        /\ (/\ HybridReturned
            /\ ordering_metadata.ordering_method = "section_numbers_primary")
              => InInitialSort

\* without the embedding model, a document has been ordered by structure
\* whose last two content pages are equal and unlike the page before them
C17_Witness ==
    /\ pc = "done"
    /\ ~EMBEDDINGS_AVAILABLE
    /\ Texts = <<ConclusionText, MethodsText, IntroText, ConclusionText,
                 BlankText>>
    /\ ordering_metadata.ordering_method = "section_numbers_primary"
    /\ ordered_pages = <<2, 1, 0, 3, 4>>
    /\ near_duplicates = <<>>

\* the detected page number of the content page at place k of ordered_pages
NumberAt(k) == pages[ordered_pages[k] + 1].page_number_detected.num

\* C18: under number order, whatever the confidence of the detections, the
\* content pages with a detected page number come in ascending number,
\* equal numbers in ascending page_index, and before every content page
\* without a number.
C18_NumberOrder ==
    (HybridReturned /\ ordering_metadata.ordering_method = "page_numbers_primary")
        => \A k \in DOMAIN ordered_pages, m \in DOMAIN ordered_pages :
              (/\ k < m
               /\ ordered_pages[k] + 1 \in ContentPages
               /\ ordered_pages[m] + 1 \in NumberedContentPages)
                  => /\ NumberAt(k) /= <<>>
                     /\ \/ NumberAt(k)[1] < NumberAt(m)[1]
                        \/ /\ NumberAt(k)[1] = NumberAt(m)[1]
                           /\ ordered_pages[k] < ordered_pages[m]

\* sequential_score as ordering_metadata reports it
ReportedScore == ordering_metadata.sequential_score

\* the numbers of the numbered content pages
ContentNumbers == {pages[i].page_number_detected.num[1] : i \in NumberedContentPages}

\* twice the mean gap between consecutive numbers of the numbered content
\* pages sorted by number exceeds 3: the gaps add up to the largest number
\* less the smallest, and there is one gap less than there are pages
MeanGapExceeds ==
    LET count == Cardinality(NumberedContentPages)
        largest == CHOOSE n \in ContentNumbers : \A o \in ContentNumbers : o <= n
        smallest == CHOOSE n \in ContentNumbers : \A o \in ContentNumbers : n <= o
    IN  2 * (largest - smallest) > 3 * (count - 1)

\* C19: when at least two content pages have a detected number,
\* sequential_score is 0.5 exactly when the mean gap between consecutive
\* numbers, sorted, exceeds 1.5, and 1.0 otherwise; also for exactly two
\* numbered pages.
C19_SequentialScore ==
    (/\ HybridReturned
     /\ ContentPages /= {}
     /\ Cardinality(NumberedContentPages) >= 2)
        => ReportedScore = (IF MeanGapExceeds THEN 50 ELSE 100)

\* C20: under structure order every content page with a section number
\* precedes every content page without one, whatever the position hints and
\* the embeddings are.
C20_SectionedFirst ==
    (HybridReturned /\ ordering_metadata.ordering_method = "section_numbers_primary")
        => \A k \in DOMAIN ordered_pages, m \in DOMAIN ordered_pages :
              (/\ k < m
               /\ ordered_pages[k] + 1 \in ContentPages
               /\ pages[ordered_pages[m] + 1].section_number /= <<>>)
                  => pages[ordered_pages[k] + 1].section_number /= <<>>

\* the similarity of the pages now at places k and m of the list
\* optimize_continuity reorders, 1-based
CurrentSimilarity(k, m) ==
    compute_similarity(EMBEDDINGS_AVAILABLE, content_embeddings_ordered[k],
                       content_embeddings_ordered[m])

\* a turn of the second loop has swapped two pages
Swapped == pc = "refining" /\ ordered_pages' /= ordered_pages

\* C21: a turn of the loop swaps the pages at i+1 and i+2 only if, in the
\* order as it stands, the similarity of the pages at i and i+1 is below 0.3
\* and that of the pages at i and i+2 exceeds it by more than 0.2.
C21_SwapImproves ==
    [][Swapped =>
          /\ CurrentSimilarity(loop_index + 1, loop_index + 2) < ContinuityThreshold
          /\ CurrentSimilarity(loop_index + 1, loop_index + 3)
                > CurrentSimilarity(loop_index + 1, loop_index + 2)
                  + SignificantImprovement]_vars

\* what optimize_continuity returns is what the loop has left when it ends
RefinedAsReturned ==
    pc = "refined" =>
        ordered_pages = optimize_continuity(EMBEDDINGS_AVAILABLE,
                            [k \in DOMAIN embeddings |-> k - 1], embeddings)

\* no refinement swap can take place: at most three content pages, or every
\* similarity 0
NoSwapPossible ==
    \/ Cardinality(ContentPages) <= MinPagesForContinuity
    \/ \A i \in ContentPages, j \in ContentPages :
          compute_similarity(EMBEDDINGS_AVAILABLE, embeddings[i], embeddings[j]) = 0

\* page a comes before page b by the structure key: a section number before
\* none, then the section value or the position hint, then the index
StructureBefore(a, b) ==
    LET sectioned(page) == page.section_number /= <<>>
    IN  \/ sectioned(a) /\ ~sectioned(b)
        \/ /\ sectioned(a) /\ sectioned(b)
           /\ \/ ValueLess(a.section_numeric_value, b.section_numeric_value)
              \/ /\ a.section_numeric_value = b.section_numeric_value
                 /\ a.page_index < b.page_index
        \/ /\ ~sectioned(a) /\ ~sectioned(b)
           /\ \/ a.position_hint < b.position_hint
              \/ /\ a.position_hint = b.position_hint
                 /\ a.page_index < b.page_index

\* C22: under structure order, when no refinement swap can take place, the
\* content pages come sorted: those with a section number first by
\* ascending section_numeric_value, then those without by ascending
\* position_hint, ties in either group by ascending page_index.
C22_StructureSort ==
    (/\ HybridReturned
     /\ ordering_metadata.ordering_method = "section_numbers_primary"
     /\ NoSwapPossible)
        => \A k \in DOMAIN ordered_pages, m \in DOMAIN ordered_pages :
              (/\ k < m
               /\ ordered_pages[k] + 1 \in ContentPages
               /\ ordered_pages[m] + 1 \in ContentPages)
                  => StructureBefore(pages[ordered_pages[k] + 1],
                                     pages[ordered_pages[m] + 1])

\* three pages have been put in structure order against their indices: the
\* page with a section number, then the hint 500, then the hint 950
C22_Witness ==
    /\ pc = "done"
    /\ ordering_metadata.ordering_method = "section_numbers_primary"
    /\ Texts = <<ConclusionText, NoTitleText, MethodsText>>
    /\ ordered_pages = <<2, 1, 0>>
    /\ pages[1].position_hint > pages[2].position_hint

\* the content pages carrying no detected page number
UnnumberedContentPages == ContentPages \ NumberedContentPages

\* C23: under number order the content pages without a detected page number
\* come after every numbered page, those with a section number first in
\* ascending section_numeric_value, then those without in ascending
\* page_index.
C23_UnnumberedLast ==
    (HybridReturned /\ ordering_metadata.ordering_method = "page_numbers_primary")
        => \A k \in DOMAIN ordered_pages, m \in DOMAIN ordered_pages :
              LET a == pages[ordered_pages[k] + 1]
                  b == pages[ordered_pages[m] + 1]
              IN  /\ (/\ ordered_pages[k] + 1 \in UnnumberedContentPages
                      /\ ordered_pages[m] + 1 \in NumberedContentPages)
                         => m < k
                  /\ (/\ k < m
                      /\ ordered_pages[k] + 1 \in UnnumberedContentPages
                      /\ ordered_pages[m] + 1 \in UnnumberedContentPages)
                         => \/ /\ a.section_number /= <<>>
                               /\ b.section_number = <<>>
                            \/ /\ a.section_number /= <<>>
                               /\ b.section_number /= <<>>
                               /\ ~ValueLess(b.section_numeric_value,
                                             a.section_numeric_value)
                            \/ /\ a.section_number = <<>>
                               /\ b.section_number = <<>>
                               /\ a.page_index < b.page_index

\* Steps 2 and 3 have run on the page of SpecFeatures
Featured == pc = "featured"

\* the text classify_section searches: the title and the first 500
\* characters of the page text, in lower case
SearchText == Lower(comparison.title) \o <<" ">> \o Lower(Prefix(pages[1].text, 500))

\* the places in the table of the keywords that occur in the search text
Occurring ==
    {k \in DOMAIN SECTION_KEYWORDS : Contains(SearchText, SECTION_KEYWORDS[k].kw)}

\* the weighted score of the keyword at place k of the table
Weighted(k) ==
    IF Contains(Lower(comparison.title), SECTION_KEYWORDS[k].kw)
    THEN 2 * SECTION_KEYWORDS[k].priority
    ELSE SECTION_KEYWORDS[k].priority

\* the first of the occurring keywords with the highest weighted score
Winner ==
    CHOOSE k \in Occurring :
        \A o \in Occurring :
            Weighted(o) < Weighted(k) \/ (Weighted(o) = Weighted(k) /\ k <= o)

\* C24: for a page that is not blank classify_section returns the occurring
\* keyword with the highest weighted score, the first in the table among
\* equals, with its priority and position hint, and ("unknown", 0, 500)
\* when no keyword occurs.
C24_HighestWeighted ==
    (Featured /\ ~is_blank_page(pages[1].text)) =>
        IF Occurring = {}
        THEN /\ comparison.section_type = "unknown"
             /\ comparison.section_priority = 0
             /\ comparison.position_hint = 500
        ELSE /\ comparison.section_type = SECTION_KEYWORDS[Winner].name
             /\ comparison.section_priority = SECTION_KEYWORDS[Winner].priority
             /\ comparison.position_hint = SECTION_KEYWORDS[Winner].position

\* the scope detect_page_number searches on the page of SpecFeatures
Scope == pages[1].header \o <<"\n">> \o pages[1].footer

\* the places of the scope where the k-th pattern matches
MatchPlaces(k) ==
    {j \in 1..(Len(Scope) + 1) : ReAt(PagePatterns[k].re, Scope, j).found}

\* the values in 1..9999 that the k-th pattern matches somewhere in the scope
ValuesInRange(k) ==
    {n \in {ParseInt(Group(Scope, ReAt(PagePatterns[k].re, Scope, j), 1)) :
                j \in MatchPlaces(k)} : 1 <= n /\ n <= 9999}

\* the patterns with such a match
Matching == {k \in DOMAIN PagePatterns : ValuesInRange(k) /= {}}

\* C25: detect_page_number returns a value and the confidence of the first
\* pattern, in the fixed order, that has a match in the scope with a value
\* in 1..9999, and (None, 0.0) only when no pattern has one; so the number
\* is None exactly when the confidence is 0.0, and otherwise it is in
\* 1..9999 and the confidence is 1.0, 0.9, 0.8 or 0.5.
C25_FirstPatternInRange ==
    Featured =>
        LET detected == comparison.page_number_detected
            first == CHOOSE k \in Matching : \A o \in Matching : k <= o
        IN  /\ detected.num = <<>> <=> detected.conf = 0
            /\ detected.num /= <<>> =>
                  detected.num[1] \in 1..9999 /\ detected.conf \in {10, 9, 8, 5}
            /\ detected = NoPageNumber <=> Matching = {}
            /\ Matching /= {} =>
                  /\ detected.conf = PagePatterns[first].conf
                  /\ detected.num /= <<>>
                  /\ detected.num[1] \in ValuesInRange(first)

\* the number of characters of text that are not whitespace
Meaningful(text) == Len(SelectSeq(text, LAMBDA c : c \notin SpaceCh))

\* C26: a page is blank exactly when its text has fewer than 20 characters
\* that are not whitespace; a blank page gets the sentinel title, no section
\* number and the section ("blank", 0, 9999) whatever keywords it contains,
\* and no other page gets the sentinel title or the section type "blank".
C26_BlankPages ==
    Featured =>
        /\ is_blank_page(pages[1].text) <=> Meaningful(pages[1].text) < BlankThreshold
        /\ Meaningful(pages[1].text) < BlankThreshold =>
              /\ comparison.title = BlankTitle
              /\ comparison.section_number = <<>>
              /\ comparison.section_numeric_value = <<>>
              /\ comparison.section_type = "blank"
              /\ comparison.section_priority = 0
              /\ comparison.position_hint = 9999
        /\ Meaningful(pages[1].text) >= BlankThreshold =>
              /\ comparison.title /= BlankTitle
              /\ comparison.section_type /= "blank"

\* the adapter was called and returned an order
AdapterSucceeded == AdapterCalled /\ ~gemini_result.failed

\* C27: when order_pages_with_gemini returns an order, the final order is
\* that order, the page at place k being the input page correct_order[k],
\* new_position of every page is its place in it, and the local engine is
\* not run: the metadata are the adapter's and nothing is raised.
C27_AdapterOrderKept ==
    AdapterSucceeded =>
        /\ pc \in {"reordered", "done"}
        /\ raised = ""
        /\ AnswerIsPermutation
        /\ \A k \in DOMAIN ordered_pages :
              /\ ordered_pages[k] = Answer.order[k]
              /\ pages[ordered_pages[k] + 1].page_index = Answer.order[k]
              /\ pages[ordered_pages[k] + 1].new_position = k - 1
        /\ ordering_metadata = gemini_result.metadata
        /\ ordering_metadata.ordering_method = "gemini_ai_structured"
        /\ "sequential_score" \notin DOMAIN ordering_metadata

\* the pipeline has ended with an order of the adapter that is not the
\* order the local engine gives
C27_Witness ==
    /\ pc = "done"
    /\ AdapterSucceeded
    /\ Len(pages) = MaxPages
    /\ ordered_pages = Answer.order
    /\ ordered_pages /=
          order_pages_hybrid(EMBEDDINGS_AVAILABLE,
              [i \in DOMAIN pages |-> BeforeOrdering(pages[i])], embeddings).ordered
    /\ reordered_count > 0

\* C28: compute_page_scores gives the first and the last page the
\* continuity component 0, every page between them the average of its
\* similarities to the page before and the page after, and every page 0
\* when embeddings are unavailable.  The component is in two-thousandths.
C28_ContinuityComponent ==
    pc = "scored" =>
        \A k \in DOMAIN embeddings :
            comparison[k].continuity_score =
                IF ~EMBEDDINGS_AVAILABLE \/ k = 1 \/ k = Len(embeddings)
                THEN 0
                ELSE Cosine(embeddings[k - 1], embeddings[k])
                     + Cosine(embeddings[k], embeddings[k + 1])

\* the list optimize_continuity reorders holds each page once, with its
\* embedding beside it, and the first and the last page where they were
Rearranged ==
    pc \in {"refining", "refined"} =>
        /\ Len(ordered_pages) = Len(embeddings)
        /\ \A idx \in 0..(Len(embeddings) - 1) :
              Cardinality({k \in DOMAIN ordered_pages : ordered_pages[k] = idx}) = 1
        /\ content_embeddings_ordered =
              [k \in DOMAIN ordered_pages |-> embeddings[ordered_pages[k] + 1]]
        /\ ordered_pages /= <<>> =>
              /\ ordered_pages[1] = 0
              /\ ordered_pages[Len(ordered_pages)] = Len(ordered_pages) - 1
        /\ loop_index <= Len(continuity_scores)
        /\ pc = "refined" => loop_index = Len(continuity_scores)

\* a turn of the loop moves on by one index and leaves the list as it is or
\* with the pages at i+1 and i+2 exchanged
OneTurn ==
    pc = "refining" /\ pc' = "refining" =>
        /\ loop_index' = loop_index + 1
        /\ \/ ordered_pages' = ordered_pages
           \/ /\ loop_index + 3 < Len(ordered_pages)
              /\ ordered_pages' =
                    [ordered_pages EXCEPT
                        ![loop_index + 2] = ordered_pages[loop_index + 3],
                        ![loop_index + 3] = ordered_pages[loop_index + 2]]

\* C29: optimize_continuity makes one pass from left to right with at most
\* one swap a turn, swaps adjacent pages only, returns the pages it was
\* given, none dropped and none twice, keeps the embeddings aligned with
\* the pages, and never moves the first or the last page.
C29_BoundedRearrangement == []Rearranged /\ [][OneTurn]_vars

\* the pass has ended after two swaps
C29_Witness ==
    /\ pc = "refined"
    /\ ordered_pages = <<0, 2, 1, 4, 3, 5>>
    /\ loop_index = 5

\* the pages, blank ones included, that carry a detected number
NumberedPagesOfAll == {i \in DOMAIN pages : pages[i].page_number_detected.num /= <<>>}

\* the detected numbers
NumbersOfAll == {pages[i].page_number_detected.num[1] : i \in NumberedPagesOfAll}

\* the numbers strictly between two detected numbers that are not detected
GapsOfAll ==
    UNION {{n \in low..high : n \notin NumbersOfAll} :
              low \in NumbersOfAll, high \in NumbersOfAll}

\* at least 30% of all pages carry a detected number
Covered ==
    pages /= <<>>
    /\ 10 * Cardinality(NumberedPagesOfAll) >= 3 * Len(pages)

\* C30: Step 6 looks for missing pages only when at least 30% of all the
\* pages, blank ones included, carry a detected number, or when the adapter
\* is requested with a key; otherwise the reported list is empty even when
\* the detected numbers have gaps.
C30_MissingGate ==
    pc \in {"checked", "reordered", "raised", "done"} =>
        IF Covered \/ (use_gemini /\ gemini_api_key)
        THEN Members(missing_pages) = GapsOfAll /\ IsAscending(missing_pages)
        ELSE missing_pages = <<>>

\* two of seven pages carry the numbers 1 and 5, the adapter is requested
\* with a key but not installed, and the pages 2, 3, 4 are reported missing
C30_Witness ==
    /\ pc = "done"
    /\ Len(pages) = GatedPages
    /\ ~Covered
    /\ use_gemini /\ gemini_api_key /\ ~GEMINI_AVAILABLE
    /\ missing_pages = <<2, 3, 4>>

\* the same kind of document without the request: the numbers 1 and 5 are
\* detected and nothing is reported missing
C30_Ungated ==
    /\ pc = "done"
    /\ Len(pages) = GatedPages
    /\ ~Covered
    /\ ~use_gemini
    /\ NumbersOfAll = {1, 5}
    /\ missing_pages = <<>>

====
